---- MODULE Spec2Model ----
(***************************************************************************)
(* SOCBot (TeamsAgent): conversation sessions, thread correlation and      *)
(* proactive notification fanout.                                          *)
(*                                                                         *)
(* Sources: conversationManager.ts (src/unnamed/part_007),                 *)
(* proactiveNotifier.ts, agentConnector.ts, the HTTP function module       *)
(* (src/unnamed/part_006), teamsBot.ts and internal/initialize.ts.         *)
(*                                                                         *)
(* JavaScript strings are modelled as sequences of one-character strings   *)
(* so that toLowerCase, trim, includes and split are computed, not assumed.*)
(* Maps (Map<string, T>) are functions whose DOMAIN is the set of keys.    *)
(***************************************************************************)
EXTENDS Integers, Sequences, FiniteSets, TLC

(***************************************************************************)
(* Bounds of the model.                                                    *)
(***************************************************************************)
\* total number of updateConversationState calls in a behaviour
MaxUpdates == 6
\* last instant (minutes since the start of day 0) the clock may reach
MaxNow == 2160
\* number of proactive fanouts started in a behaviour
MaxFanouts == 1
\* number of processPrompt calls started in a behaviour
MaxCalls == 3
\* number of setUserPreferences calls in a behaviour
MaxPrefSets == 1
\* number of HTTP requests of one endpoint in a behaviour
MaxRequests == 1
\* number of updateConversationState calls in a behaviour with fanouts
MaxFanoutUpdates == 2
\* number of processPrompt calls started in a behaviour with overlapping calls
MaxConcurrentCalls == 2
\* number of updateConversationState calls in a behaviour with query calls
MaxQueryUpdates == 2
\* number of processPrompt calls in a behaviour with query calls
MaxQueryCalls == 1
\* number of vocabulary words in a classified text
MaxWords == 2
\* number of /api/messages requests in a behaviour
MaxTurns == 1

(***************************************************************************)
(* Strings.                                                                *)
(***************************************************************************)
UpperChars ==
    <<"A", "B", "C", "D", "E", "F", "G", "H", "I", "J", "K", "L", "M", "N", "O", "P", "Q", "R", "S", "T", "U", "V", "W", "X", "Y", "Z">>

LowerChars ==
    <<"a", "b", "c", "d", "e", "f", "g", "h", "i", "j", "k", "l", "m", "n", "o", "p", "q", "r", "s", "t", "u", "v", "w", "x", "y", "z">>

\* whitespace removed by String.prototype.trim
WhiteSpace == {" ", "\t", "\n", "\r"}

\* the absent value (undefined) of optional fields and parameters
None == "undefined"

\* the absent value of an optional object or array
Absent == [absent |-> TRUE]

\* the absent thread id; the backend's thread ids are 1, 2, ...
NoThread == 0

\* the lower-case letter of each upper-case letter
LowerOf ==
    [ch \in {UpperChars[i] : i \in 1..Len(UpperChars)} |->
        LowerChars[CHOOSE i \in 1..Len(UpperChars) : UpperChars[i] = ch]]

ToLowerChar(ch) ==
    IF ch \in DOMAIN LowerOf THEN LowerOf[ch] ELSE ch

\* String.prototype.toLowerCase
ToLowerCase(s) == [i \in 1..Len(s) |-> ToLowerChar(s[i])]

\* String.prototype.trim: drops leading and trailing whitespace
Trim(s) ==
    LET keep == {i \in 1..Len(s) : s[i] \notin WhiteSpace}
    IN IF keep = {} THEN <<>>
       ELSE LET lo == CHOOSE i \in keep : \A j \in keep : i <= j
                hi == CHOOSE i \in keep : \A j \in keep : j <= i
            IN SubSeq(s, lo, hi)

\* String.prototype.includes
Includes(s, kw) ==
    \E i \in 0..(Len(s) - Len(kw)) : SubSeq(s, i + 1, i + Len(kw)) = kw

\* Array.prototype.some(keyword => lowerQuery.includes(keyword))
SomeIncluded(keywords, s) ==
    \E i \in 1..Len(keywords) : Includes(s, keywords[i])

\* Array.prototype.slice(-n): the last n elements (all when fewer)
SliceLast(q, n) ==
    IF Len(q) <= n THEN q ELSE SubSeq(q, Len(q) - n + 1, Len(q))

(***************************************************************************)
(* conversationManager.ts: keyword classification.                         *)
(***************************************************************************)
criticalKeywords ==
    <<<<"b", "r", "e", "a", "c", "h">>,
       <<"a", "t", "t", "a", "c", "k">>,
       <<"c", "o", "m", "p", "r", "o", "m", "i", "s", "e">>,
       <<"m", "a", "l", "w", "a", "r", "e">>,
       <<"r", "a", "n", "s", "o", "m", "w", "a", "r", "e">>,
       <<"c", "r", "i", "t", "i", "c", "a", "l">>,
       <<"u", "r", "g", "e", "n", "t">>,
       <<"e", "m", "e", "r", "g", "e", "n", "c", "y">>>>

highKeywords ==
    <<<<"t", "h", "r", "e", "a", "t">>,
       <<"s", "u", "s", "p", "i", "c", "i", "o", "u", "s">>,
       <<"a", "l", "e", "r", "t">>,
       <<"i", "n", "c", "i", "d", "e", "n", "t">>,
       <<"v", "u", "l", "n", "e", "r", "a", "b", "i", "l", "i", "t", "y">>,
       <<"e", "x", "p", "l", "o", "i", "t">>>>

mediumKeywords ==
    <<<<"s", "e", "c", "u", "r", "i", "t", "y">>,
       <<"a", "u", "d", "i", "t">>,
       <<"c", "o", "m", "p", "l", "i", "a", "n", "c", "e">>,
       <<"p", "o", "l", "i", "c", "y">>,
       <<"r", "e", "v", "i", "e", "w">>>>

topics ==
    <<[topic |-> "incident response",
       keywords |-> <<<<"i", "n", "c", "i", "d", "e", "n", "t">>,
                    <<"r", "e", "s", "p", "o", "n", "s", "e">>,
                    <<"c", "o", "n", "t", "a", "i", "n", "m", "e", "n", "t">>,
                    <<"r", "e", "c", "o", "v", "e", "r", "y">>>>],
      [topic |-> "threat analysis",
       keywords |-> <<<<"t", "h", "r", "e", "a", "t">>,
                    <<"a", "n", "a", "l", "y", "s", "i", "s">>,
                    <<"i", "n", "t", "e", "l", "l", "i", "g", "e", "n", "c", "e">>,
                    <<"i", "o", "c">>,
                    <<"i", "n", "d", "i", "c", "a", "t", "o", "r", "s">>>>],
      [topic |-> "compliance",
       keywords |-> <<<<"c", "o", "m", "p", "l", "i", "a", "n", "c", "e">>,
                    <<"a", "u", "d", "i", "t">>,
                    <<"f", "r", "a", "m", "e", "w", "o", "r", "k">>,
                    <<"s", "t", "a", "n", "d", "a", "r", "d", "s">>,
                    <<"r", "e", "g", "u", "l", "a", "t", "i", "o", "n">>>>],
      [topic |-> "vulnerability management",
       keywords |-> <<<<"v", "u", "l", "n", "e", "r", "a", "b", "i", "l", "i", "t", "y">>,
                    <<"p", "a", "t", "c", "h">>,
                    <<"c", "v", "e">>,
                    <<"s", "c", "a", "n", "n", "i", "n", "g">>>>],
      [topic |-> "access control",
       keywords |-> <<<<"a", "c", "c", "e", "s", "s">>,
                    <<"p", "e", "r", "m", "i", "s", "s", "i", "o", "n", "s">>,
                    <<"a", "u", "t", "h", "e", "n", "t", "i", "c", "a", "t", "i", "o", "n">>,
                    <<"a", "u", "t", "h", "o", "r", "i", "z", "a", "t", "i", "o", "n">>>>],
      [topic |-> "network security",
       keywords |-> <<<<"n", "e", "t", "w", "o", "r", "k">>,
                    <<"f", "i", "r", "e", "w", "a", "l", "l">>,
                    <<"i", "n", "t", "r", "u", "s", "i", "o", "n">>,
                    <<"t", "r", "a", "f", "f", "i", "c">>>>],
      [topic |-> "malware analysis",
       keywords |-> <<<<"m", "a", "l", "w", "a", "r", "e">>,
                    <<"v", "i", "r", "u", "s">>,
                    <<"t", "r", "o", "j", "a", "n">>,
                    <<"p", "a", "y", "l", "o", "a", "d">>,
                    <<"a", "n", "a", "l", "y", "s", "i", "s">>>>]>>


\* ConversationManager.detectSecurityLevel
detectSecurityLevel_mediumFirst(query) ==
    LET lowerQuery == ToLowerCase(query)
    IN IF SomeIncluded(mediumKeywords, lowerQuery) THEN "medium"
       ELSE IF SomeIncluded(highKeywords, lowerQuery) THEN "high"
       ELSE IF SomeIncluded(criticalKeywords, lowerQuery) THEN "critical"
       ELSE "low"

detectSecurityLevel(query) ==
    LET lowerQuery == ToLowerCase(query)
    IN IF SomeIncluded(criticalKeywords, lowerQuery) THEN "critical"
       ELSE IF SomeIncluded(highKeywords, lowerQuery) THEN "high"
       ELSE IF SomeIncluded(mediumKeywords, lowerQuery) THEN "medium"
       ELSE "low"

\* ConversationManager.detectCurrentTopic: first entry of the table, in
\* insertion order, one of whose keywords occurs in the query
detectCurrentTopic_lastMatch(query) ==
    LET lowerQuery == ToLowerCase(query)
        hits == {i \in 1..Len(topics) : SomeIncluded(topics[i].keywords, lowerQuery)}
    IN IF hits = {} THEN "general security"
       ELSE topics[CHOOSE i \in hits : \A j \in hits : j <= i].topic

detectCurrentTopic(query) ==
    LET lowerQuery == ToLowerCase(query)
        hits == {i \in 1..Len(topics) : SomeIncluded(topics[i].keywords, lowerQuery)}
    IN IF hits = {} THEN "general security"
       ELSE topics[CHOOSE i \in hits : \A j \in hits : i <= j].topic

(***************************************************************************)
(* State.                                                                  *)
(***************************************************************************)
VARIABLES
    now,                     \* local wall clock, minutes since 00:00 of day 0
    conversationStates,      \* ConversationManager.conversationStates
    conversationReferences,  \* ConversationManager.conversationReferences
    userPreferences,         \* ConversationManager.userPreferences
    cleanedCount,            \* value returned by the latest cleanupOldStates
    threadCache,             \* AgentConnector.threadCache, one per connector
    threadsCreated,          \* threads the AI backend has created so far
    calls,                   \* processPrompt invocations, in start order
    fanouts,                 \* sendNotification invocations, in start order
    env,                     \* environment values that are set
    botInitializer,          \* module variable of the HTTP function module
    agentConnector,          \* module variable of the HTTP function module
    adaptiveCardTemplate,    \* module variable of the HTTP function module
    alertRequests,           \* /api/securityAlert requests, in arrival order
    notificationRequests,    \* /api/notification requests, in arrival order
    updatesApplied,          \* history: updates applied per conversation
    evictedEver,             \* history: conversations evicted at least once
    textsSent,               \* history: raw texts carried by updates
    maxCount,                \* history: largest messageCount observed
    prefSets,                \* history: number of setUserPreferences calls
    returned,                \* the latest direct call of a method and its value
    messageBotInitializer,   \* module variable botInitializer of the message handler
    turns,                   \* /api/messages requests, in arrival order
    healthRequests           \* /api/health requests, in arrival order

vars ==
    <<now, conversationStates, conversationReferences, userPreferences,
      cleanedCount, threadCache, threadsCreated, calls, fanouts, env,
      botInitializer, agentConnector, adaptiveCardTemplate, alertRequests,
      notificationRequests, updatesApplied, evictedEver, textsSent, maxCount,
      prefSets, returned, messageBotInitializer, turns, healthRequests>>

clockVars == <<now>>

sessionVars == <<conversationStates, conversationReferences, cleanedCount>>

prefVars == <<userPreferences, prefSets>>

threadVars == <<threadCache, threadsCreated, calls>>

endpointVars == <<messageBotInitializer, turns, healthRequests>>

fanoutVars == <<fanouts>>

httpVars ==
    <<env, botInitializer, agentConnector, adaptiveCardTemplate,
      alertRequests, notificationRequests>>

historyVars == <<updatesApplied, evictedEver, textsSent, maxCount, returned>>

ConversationIds == {"c1", "c2", "c3"}

UserIds == {"u1", "u2"}

\* the AgentConnector instances of the process: one per bot, one of the
\* HTTP function module
Connectors == {"agentBot", "teamsBot", "http"}

EnvNames ==
    {"PROJECT_CONNECTION_STRING", "AGENT_ID", "MicrosoftAppId",
     "MicrosoftAppPassword"}

\* the empty Map
EmptyMap == [k \in {} |-> None]

\* Map.prototype.set
MapSet(m, k, v) == [x \in DOMAIN m \cup {k} |-> IF x = k THEN v ELSE m[x]]

\* Map.prototype.delete for a set of keys
MapDelete(m, ks) == [x \in DOMAIN m \ ks |-> m[x]]

\* sum of f over the finite set S
RECURSIVE SumOver(_, _)
SumOver(f, S) ==
    IF S = {} THEN 0
    ELSE LET x == CHOOSE y \in S : TRUE IN f[x] + SumOver(f, S \ {x})

\* no method has been called directly yet
NoReturn ==
    [op |-> "none", connector |-> None, userId |-> None, alertType |-> None, priority |-> None,
     conversationId |-> None, prompt |-> <<>>, notify |-> FALSE,
     text |-> <<>>, state |-> Absent, maxAgeHours |-> 0,
     references |-> {}, statistics |-> Absent,
     securityLevel |-> None, currentTopic |-> None]

Init ==
    /\ now = 0
    /\ conversationStates = EmptyMap
    /\ conversationReferences = EmptyMap
    /\ userPreferences = EmptyMap
    /\ cleanedCount = None
    /\ threadCache = [k \in Connectors |-> EmptyMap]
    /\ threadsCreated = 0
    /\ calls = <<>>
    /\ fanouts = <<>>
    /\ env = EnvNames
    /\ botInitializer = FALSE
    /\ agentConnector = FALSE
    /\ adaptiveCardTemplate = FALSE
    /\ alertRequests = <<>>
    /\ notificationRequests = <<>>
    /\ updatesApplied = [c \in ConversationIds |-> 0]
    /\ evictedEver = {}
    /\ textsSent = [c \in ConversationIds |-> <<>>]
    /\ maxCount = [c \in ConversationIds |-> 0]
    /\ prefSets = 0
    /\ returned = NoReturn
    /\ messageBotInitializer = FALSE
    /\ turns = <<>>
    /\ healthRequests = <<>>

(***************************************************************************)
(* The clock.                                                              *)
(***************************************************************************)
\* time passes: d minutes
Tick(d) ==
    /\ now + d <= MaxNow
    /\ now' = now + d
    /\ UNCHANGED <<sessionVars, prefVars, threadVars, fanoutVars, httpVars,
                   historyVars, endpointVars>>

\* Date.prototype.getHours and getMinutes of new Date()
getHours == (now \div 60) % 24

getMinutes == now % 60

(***************************************************************************)
(* conversationManager.ts: sessions.                                       *)
(***************************************************************************)
\* the state created for the first message of a conversation
NewState(conversationId, userId) ==
    [conversationId |-> conversationId,
     threadId |-> NoThread,
     userId |-> userId,
     lastActivity |-> now,
     messageCount |-> 1,
     previousQueries |-> <<>>,
     securityLevel |-> None,
     currentTopic |-> None,
     detailLevel |-> "detailed",
     responseFormat |-> "text"]

\* updateConversationState on a state that exists: activity time and counter
BumpState_noIncrement(state) ==
    [state EXCEPT !.lastActivity = now]

BumpState_decrement(state) ==
    [state EXCEPT !.lastActivity = now, !.messageCount = @ - 1]

BumpState(state) ==
    [state EXCEPT !.lastActivity = now, !.messageCount = @ + 1]

\* the query tracking of updateConversationState for a non-empty text
TrackQuery_keepOldest(state, text) ==
    LET query == Trim(ToLowerCase(text))
        pushed == Append(state.previousQueries, query)
        kept == IF Len(pushed) > 5 THEN SubSeq(pushed, 1, 5) ELSE pushed
    IN [state EXCEPT !.previousQueries = kept,
                     !.securityLevel = detectSecurityLevel(query),
                     !.currentTopic = detectCurrentTopic(query)]

TrackQuery_keepHighest(state, text) ==
    LET query == Trim(ToLowerCase(text))
        pushed == Append(state.previousQueries, query)
        kept == IF Len(pushed) > 5 THEN SliceLast(pushed, 5) ELSE pushed
    IN [state EXCEPT !.previousQueries = kept,
                     !.securityLevel =
                         IF state.securityLevel = "critical" THEN "critical"
                         ELSE detectSecurityLevel(query),
                     !.currentTopic = detectCurrentTopic(query)]

TrackQuery(state, text) ==
    LET query == Trim(ToLowerCase(text))
        pushed == Append(state.previousQueries, query)
        kept == IF Len(pushed) > 5 THEN SliceLast(pushed, 5) ELSE pushed
    IN [state EXCEPT !.previousQueries = kept,
                     !.securityLevel = detectSecurityLevel(query),
                     !.currentTopic = detectCurrentTopic(query)]

\* TurnContext.getConversationReference(context.activity)
GetConversationReference(conversationId, userId, channelId) ==
    [conversationId |-> conversationId, userId |-> userId,
     channelId |-> channelId]

\* ConversationManager.updateConversationState for an activity of
\* conversation.id, from.id, text and channelId; text <<>> is an activity
\* without text
updateConversationState_noReference(conversationId, userId, text, threadId, channelId) ==
    LET found == conversationId \in DOMAIN conversationStates
        s0 == IF found
              THEN BumpState(conversationStates[conversationId])
              ELSE NewState(conversationId, userId)
        s1 == IF threadId # NoThread THEN [s0 EXCEPT !.threadId = threadId] ELSE s0
    IN /\ \E s2 \in {IF text # <<>> THEN TrackQuery(s1, text) ELSE s1} :
          /\ conversationStates' =
                MapSet(conversationStates, conversationId, s2)
          /\ maxCount' =
                [maxCount EXCEPT ![conversationId] =
                    IF s2.messageCount > @ THEN s2.messageCount ELSE @]
       /\ conversationReferences' = conversationReferences
       /\ updatesApplied' =
             [updatesApplied EXCEPT ![conversationId] = @ + 1]
       /\ textsSent' =
             IF text # <<>>
             THEN [textsSent EXCEPT ![conversationId] = Append(@, text)]
             ELSE textsSent
       /\ UNCHANGED <<cleanedCount, evictedEver, returned>>

updateConversationState(conversationId, userId, text, threadId, channelId) ==
    LET found == conversationId \in DOMAIN conversationStates
        s0 == IF found
              THEN BumpState(conversationStates[conversationId])
              ELSE NewState(conversationId, userId)
        s1 == IF threadId # NoThread THEN [s0 EXCEPT !.threadId = threadId] ELSE s0
    IN /\ \E s2 \in {IF text # <<>> THEN TrackQuery(s1, text) ELSE s1} :
          /\ conversationStates' =
                MapSet(conversationStates, conversationId, s2)
          /\ maxCount' =
                [maxCount EXCEPT ![conversationId] =
                    IF s2.messageCount > @ THEN s2.messageCount ELSE @]
       /\ conversationReferences' =
             MapSet(conversationReferences, conversationId,
                    GetConversationReference(conversationId, userId, channelId))
       /\ updatesApplied' =
             [updatesApplied EXCEPT ![conversationId] = @ + 1]
       /\ textsSent' =
             IF text # <<>>
             THEN [textsSent EXCEPT ![conversationId] = Append(@, text)]
             ELSE textsSent
       /\ UNCHANGED <<cleanedCount, evictedEver, returned>>

\* an inbound activity reaches updateConversationState
Update(conversationId, userId, text) ==
    /\ SumOver(updatesApplied, ConversationIds) < MaxUpdates
    /\ updateConversationState(conversationId, userId, text, NoThread, "msteams")
    /\ UNCHANGED <<clockVars, prefVars, threadVars, fanoutVars, httpVars,
                   endpointVars>>

\* ConversationManager.cleanupOldStates
CleanupOldStates_notStrict(maxAgeHours) ==
    LET cutoffTime == now - 60 * maxAgeHours
        old == {c \in DOMAIN conversationStates :
                   conversationStates[c].lastActivity <= cutoffTime}
    IN /\ conversationStates' = MapDelete(conversationStates, old)
       /\ conversationReferences' = MapDelete(conversationReferences, old)
       /\ cleanedCount' = Cardinality(old)
       /\ evictedEver' = evictedEver \cup old
       /\ returned' = [NoReturn EXCEPT !.op = "cleanupOldStates",
                                       !.maxAgeHours = maxAgeHours]
       /\ UNCHANGED <<clockVars, prefVars, threadVars, fanoutVars, httpVars,
                      updatesApplied, textsSent, maxCount, endpointVars>>

CleanupOldStates_keepReference(maxAgeHours) ==
    LET cutoffTime == now - 60 * maxAgeHours
        old == {c \in DOMAIN conversationStates :
                   conversationStates[c].lastActivity < cutoffTime}
    IN /\ conversationStates' = MapDelete(conversationStates, old)
       /\ conversationReferences' = conversationReferences
       /\ cleanedCount' = Cardinality(old)
       /\ evictedEver' = evictedEver \cup old
       /\ returned' = [NoReturn EXCEPT !.op = "cleanupOldStates",
                                       !.maxAgeHours = maxAgeHours]
       /\ UNCHANGED <<clockVars, prefVars, threadVars, fanoutVars, httpVars,
                      updatesApplied, textsSent, maxCount, endpointVars>>

CleanupOldStates_dropThreads(maxAgeHours) ==
    LET cutoffTime == now - 60 * maxAgeHours
        old == {c \in DOMAIN conversationStates :
                   conversationStates[c].lastActivity < cutoffTime}
    IN /\ conversationStates' = MapDelete(conversationStates, old)
       /\ conversationReferences' = MapDelete(conversationReferences, old)
       /\ cleanedCount' = Cardinality(old)
       /\ evictedEver' = evictedEver \cup old
       /\ returned' = [NoReturn EXCEPT !.op = "cleanupOldStates",
                                       !.maxAgeHours = maxAgeHours]
       /\ threadCache' = [k \in Connectors |-> MapDelete(threadCache[k], old)]
       /\ UNCHANGED <<clockVars, prefVars, threadsCreated, calls, fanoutVars,
                      httpVars, updatesApplied, textsSent, maxCount,
                      endpointVars>>

CleanupOldStates(maxAgeHours) ==
    LET cutoffTime == now - 60 * maxAgeHours
        old == {c \in DOMAIN conversationStates :
                   conversationStates[c].lastActivity < cutoffTime}
    IN /\ conversationStates' = MapDelete(conversationStates, old)
       /\ conversationReferences' = MapDelete(conversationReferences, old)
       /\ cleanedCount' = Cardinality(old)
       /\ evictedEver' = evictedEver \cup old
       /\ returned' = [NoReturn EXCEPT !.op = "cleanupOldStates",
                                       !.maxAgeHours = maxAgeHours]
       /\ UNCHANGED <<clockVars, prefVars, threadVars, fanoutVars, httpVars,
                      updatesApplied, textsSent, maxCount, endpointVars>>

\* ConversationManager.getConversationState
getConversationState(conversationId) ==
    IF conversationId \in DOMAIN conversationStates
    THEN conversationStates[conversationId]
    ELSE Absent

\* ConversationManager.getConversationState called directly
GetConversationState_creates(conversationId) ==
    /\ returned' = [NoReturn EXCEPT
                       !.op = "getConversationState",
                       !.conversationId = conversationId,
                       !.state = getConversationState(conversationId)]
    /\ conversationStates' =
          IF conversationId \in DOMAIN conversationStates
          THEN conversationStates
          ELSE MapSet(conversationStates, conversationId,
                      NewState(conversationId, None))
    /\ UNCHANGED <<clockVars, conversationReferences, cleanedCount, prefVars,
                   threadVars, fanoutVars, httpVars, updatesApplied,
                   evictedEver, textsSent, maxCount, endpointVars>>

GetConversationState(conversationId) ==
    /\ returned' = [NoReturn EXCEPT
                       !.op = "getConversationState",
                       !.conversationId = conversationId,
                       !.state = getConversationState(conversationId)]
    /\ UNCHANGED <<clockVars, sessionVars, prefVars, threadVars, fanoutVars,
                   httpVars, updatesApplied, evictedEver, textsSent, maxCount,
                   endpointVars>>

\* ConversationManager.getAllConversationReferences
getAllConversationReferences ==
    {conversationReferences[c] : c \in DOMAIN conversationReferences}

\* a call of getAllConversationReferences
GetAllConversationReferences ==
    /\ returned' = [NoReturn EXCEPT
                       !.op = "getAllConversationReferences",
                       !.references = getAllConversationReferences]
    /\ UNCHANGED <<clockVars, sessionVars, prefVars, threadVars, fanoutVars,
                   httpVars, updatesApplied, evictedEver, textsSent, maxCount,
                   endpointVars>>

(***************************************************************************)
(* conversationManager.ts: prompt enhancement.  A string that is built is   *)
(* the sequence of its pieces: the characters of the texts users sent and   *)
(* the literals and names the program inserts.                              *)
(***************************************************************************)
\* the literals of the template strings of enhancePromptWithContext
ContextLine == "\n\nContext: This conversation is focusing on "

RecentLine == "\n\nRecent discussion topics: "

PreferenceLine == "\n\nUser preference: Provide "

\* Array.prototype.join(', ') of an array of strings
RECURSIVE Join(_)
Join(strings) ==
    IF strings = <<>> THEN <<>>
    ELSE IF Len(strings) = 1 THEN strings[1]
    ELSE strings[1] \o <<", ">> \o Join(Tail(strings))

\* ConversationManager.enhancePromptWithContext
enhancePromptWithContext_prepend(prompt, conversationId) ==
    IF \/ conversationId \notin DOMAIN conversationStates
       \/ conversationStates[conversationId].previousQueries = <<>>
    THEN prompt
    ELSE LET state == conversationStates[conversationId]
             topicLine ==
                 IF state.currentTopic # None
                 THEN <<ContextLine, state.currentTopic, ".">>
                 ELSE <<>>
             recentLine ==
                 IF Len(state.previousQueries) > 1
                 THEN <<RecentLine>>
                      \o Join(SliceLast(state.previousQueries, 3))
                 ELSE <<>>
             detailLine ==
                 IF state.detailLevel # None
                 THEN <<PreferenceLine, state.detailLevel, " responses.">>
                 ELSE <<>>
         IN topicLine \o recentLine \o detailLine \o prompt

enhancePromptWithContext(prompt, conversationId) ==
    IF \/ conversationId \notin DOMAIN conversationStates
       \/ conversationStates[conversationId].previousQueries = <<>>
    THEN prompt
    ELSE LET state == conversationStates[conversationId]
             topicLine ==
                 IF state.currentTopic # None
                 THEN <<ContextLine, state.currentTopic, ".">>
                 ELSE <<>>
             recentLine ==
                 IF Len(state.previousQueries) > 1
                 THEN <<RecentLine>>
                      \o Join(SliceLast(state.previousQueries, 3))
                 ELSE <<>>
             detailLine ==
                 IF state.detailLevel # None
                 THEN <<PreferenceLine, state.detailLevel, " responses.">>
                 ELSE <<>>
         IN prompt \o topicLine \o recentLine \o detailLine

\* ConversationManager.enhancePromptWithContext called directly
EnhancePromptWithContext(prompt, conversationId) ==
    /\ returned' = [NoReturn EXCEPT
                       !.op = "enhancePromptWithContext",
                       !.conversationId = conversationId,
                       !.prompt = prompt,
                       !.text = enhancePromptWithContext(prompt, conversationId)]
    /\ UNCHANGED <<clockVars, sessionVars, prefVars, threadVars, fanoutVars,
                   httpVars, updatesApplied, evictedEver, textsSent, maxCount,
                   endpointVars>>

(***************************************************************************)
(* conversationManager.ts: notification preferences.                       *)
(***************************************************************************)
Digits ==
    <<"0", "1", "2", "3", "4", "5", "6", "7", "8", "9">>

\* Number(s) for a string of decimal digits
RECURSIVE Number(_)
Number(s) ==
    IF s = <<>> THEN 0
    ELSE 10 * Number(SubSeq(s, 1, Len(s) - 1))
         + (CHOOSE d \in 0..9 : Digits[d + 1] = s[Len(s)])

\* timeStr.split(':'): the pieces between the colons
SplitColon(s) ==
    LET cuts == {i \in 1..Len(s) : s[i] = ":"} \cup {0, Len(s) + 1}
        starts == cuts \ {Len(s) + 1}
        nextCut(i) == CHOOSE j \in cuts : j > i /\ \A k \in cuts : k > i => j <= k
        nth(n) == CHOOSE i \in starts : Cardinality({k \in starts : k < i}) = n - 1
    IN [n \in 1..Cardinality(starts) |->
           SubSeq(s, nth(n) + 1, nextCut(nth(n)) - 1)]

\* ConversationManager.parseTimeString
parseTimeString(timeStr) ==
    LET parts == SplitColon(timeStr)
        hours == Number(parts[1])
        minutes == Number(parts[2])
    IN hours * 100 + minutes

\* ConversationManager.isQuietHours
isQuietHours_noWrap(quietHours) ==
    LET currentTime == getHours * 100 + getMinutes
        startTime == parseTimeString(quietHours.start)
        endTime == parseTimeString(quietHours.end)
    IN currentTime >= startTime /\ currentTime <= endTime

isQuietHours(quietHours) ==
    LET currentTime == getHours * 100 + getMinutes
        startTime == parseTimeString(quietHours.start)
        endTime == parseTimeString(quietHours.end)
    IN IF startTime <= endTime
       THEN currentTime >= startTime /\ currentTime <= endTime
       ELSE currentTime >= startTime \/ currentTime <= endTime

\* ConversationManager.shouldNotifyUser
shouldNotifyUser_quietForAll(userId, alertType, priority) ==
    IF userId \notin DOMAIN userPreferences THEN TRUE
    ELSE LET prefs == userPreferences[userId]
         IN IF /\ prefs.quietHours # Absent
               /\ isQuietHours(prefs.quietHours)
            THEN FALSE
            ELSE IF prefs.alertTypes # {} /\ alertType \notin prefs.alertTypes
            THEN FALSE
            ELSE IF /\ prefs.escalationRules # Absent
                    /\ prefs.escalationRules.criticalOnly
                    /\ priority # "critical"
            THEN FALSE
            ELSE TRUE

shouldNotifyUser(userId, alertType, priority) ==
    IF userId \notin DOMAIN userPreferences THEN TRUE
    ELSE LET prefs == userPreferences[userId]
         IN IF /\ prefs.quietHours # Absent
               /\ isQuietHours(prefs.quietHours)
               /\ priority # "critical"
            THEN FALSE
            ELSE IF prefs.alertTypes # {} /\ alertType \notin prefs.alertTypes
            THEN FALSE
            ELSE IF /\ prefs.escalationRules # Absent
                    /\ prefs.escalationRules.criticalOnly
                    /\ priority # "critical"
            THEN FALSE
            ELSE TRUE

\* ConversationManager.shouldNotifyUser called directly
ShouldNotifyUser(userId, alertType, priority) ==
    /\ returned' =
          [NoReturn EXCEPT
              !.op = "shouldNotifyUser",
              !.userId = userId,
              !.alertType = alertType,
              !.priority = priority,
              !.notify = shouldNotifyUser(userId, alertType, priority)]
    /\ UNCHANGED <<clockVars, sessionVars, prefVars, threadVars, fanoutVars,
                   httpVars, updatesApplied, evictedEver, textsSent, maxCount,
                   endpointVars>>

\* ConversationManager.setUserPreferences
SetUserPreferences(userId, preferences) ==
    /\ prefSets < MaxPrefSets
    /\ prefSets' = prefSets + 1
    /\ userPreferences' = MapSet(userPreferences, userId, preferences)
    /\ UNCHANGED <<clockVars, sessionVars, threadVars, fanoutVars, httpVars,
                   historyVars, endpointVars>>

\* Math.round(a / b) for a >= 0 and b > 0
RoundDiv_floor(a, b) == a \div b

RoundDiv(a, b) == (2 * a + b) \div (2 * b)

\* ConversationManager.getStatistics
getStatistics ==
    LET ids == DOMAIN conversationStates
        total == Cardinality(ids)
        oneDayAgo == now - 60 * 24
        counts == [c \in ids |-> conversationStates[c].messageCount]
        totalMessages == SumOver(counts, ids)
    IN [totalConversations |-> total,
        activeConversations |->
            Cardinality({c \in ids :
                            conversationStates[c].lastActivity > oneDayAgo}),
        totalMessages |-> totalMessages,
        averageMessagesPerConversation |->
            IF total > 0 THEN RoundDiv(totalMessages, total) ELSE 0,
        securityLevelDistribution |->
            [l \in {"low", "medium", "high", "critical"} |->
                Cardinality({c \in ids :
                                conversationStates[c].securityLevel = l})]]

\* a call of getStatistics
GetStatistics ==
    /\ returned' = [NoReturn EXCEPT
                       !.op = "getStatistics",
                       !.statistics = getStatistics]
    /\ UNCHANGED <<clockVars, sessionVars, prefVars, threadVars, fanoutVars,
                   httpVars, updatesApplied, evictedEver, textsSent, maxCount,
                   endpointVars>>

(***************************************************************************)
(* proactiveNotifier.ts: ProactiveNotifier.                                *)
(***************************************************************************)
\* ProactiveNotifier.getPriorityEmoji
getPriorityEmoji(priority) ==
    CASE priority = "critical" -> "red circle"
      [] priority = "high" -> "orange circle"
      [] priority = "medium" -> "yellow circle"
      [] priority = "low" -> "green circle"
      [] OTHER -> "blue circle"

\* ProactiveNotifier.createAlertCard
createAlertCard(alert) ==
    [title |-> alert.title, severity |-> alert.severity,
     category |-> alert.category, source |-> alert.source,
     id |-> alert.id, actions |-> <<"Acknowledge", "Escalate">>]

\* ProactiveNotifier.createIncidentCard
createIncidentCard(alert) ==
    [title |-> alert.title, id |-> alert.id,
     actions |-> <<"Start Response", "View Details">>]

\* ProactiveNotifier.sendNotificationMessage: the activity handed to
\* context.sendActivity; format names the text that is built
sendNotificationMessage(payload) ==
    LET type == payload.type
        hasAlert == payload.alert # Absent
        format ==
            CASE type = "alert" ->
                   IF hasAlert THEN "formatAlertMessage"
                   ELSE "Security alert received"
              [] type = "incident" ->
                   IF hasAlert THEN "formatIncidentMessage"
                   ELSE "Security incident reported"
              [] type = "update" ->
                   IF payload.message # None THEN "message" ELSE "System update"
              [] type = "reminder" ->
                   IF payload.message # None THEN "message"
                   ELSE "Scheduled reminder"
              [] OTHER ->
                   IF payload.message # None THEN "message"
                   ELSE "Notification from SOCBot"
        card ==
            CASE type = "alert" /\ hasAlert -> createAlertCard(payload.alert)
              [] type = "incident" /\ hasAlert -> createIncidentCard(payload.alert)
              [] OTHER -> Absent
    IN [prefix |-> getPriorityEmoji(payload.priority), format |-> format,
        card |-> card]

\* the loop of sendNotification: the conversation references that pass the
\* target filter and the preference check
Recipients_noTargetFilter(payload, targetUsers) ==
    {r \in getAllConversationReferences :
        r.userId # None =>
            shouldNotifyUser(r.userId, payload.type, payload.priority)}

Recipients_noPreferenceCheck(payload, targetUsers) ==
    {r \in getAllConversationReferences :
        (targetUsers # Absent /\ targetUsers.items # {}) =>
            (r.userId # None /\ r.userId \in targetUsers.items)}

Recipients(payload, targetUsers) ==
    {r \in getAllConversationReferences :
        /\ (targetUsers # Absent /\ targetUsers.items # {}) =>
              (r.userId # None /\ r.userId \in targetUsers.items)
        /\ r.userId # None =>
              shouldNotifyUser(r.userId, payload.type, payload.priority)}

\* ProactiveNotifier.sendNotification up to await Promise.all: every
\* recipient's continueConversation has been called; with no recipient the
\* call returns at once. caller is the /api/securityAlert request that
\* awaits the call, 0 for a direct call
NewFanout(payload, targetUsers, caller) ==
    LET recipients == Recipients(payload, targetUsers)
    IN [payload |-> payload,
        targetUsers |-> targetUsers,
        caller |-> caller,
        conversationReferences |-> getAllConversationReferences,
        activity |-> sendNotificationMessage(payload),
        attempted |-> recipients,
        pending |-> {r.conversationId : r \in recipients},
        delivered |-> {},
        sendFailed |-> {},
        raised |-> {},
        status |-> IF recipients = {} THEN "returned" ELSE "awaiting"]

\* ProactiveNotifier.sendSecurityAlert: the payload it builds
AlertPayload(alert) ==
    [type |-> "alert", alert |-> alert, message |-> None,
     priority |-> alert.severity]

\* ProactiveNotifier.sendMessage: the payload it builds
MessagePayload(message, priority) ==
    [type |-> "update", alert |-> Absent, message |-> message,
     priority |-> priority]

\* the response of the /api/securityAlert handler after sendSecurityAlert
\* has returned
AlertSuccessResponse(request) ==
    [request EXCEPT !.pc = "responded",
                    !.status = 200,
                    !.success = TRUE,
                    !.recipientCount = getStatistics.activeConversations]

\* the state of a fanout after the dispatch to a conversation has settled:
\* delivered, sendActivity threw (caught in sendNotificationMessage), or
\* continueConversation rejected (Promise.all rejects, caught in
\* sendNotification)
Settled_cancelOthers(fanout, conversationId, outcome) ==
    LET pending == IF outcome = "raised" THEN {}
                   ELSE fanout.pending \ {conversationId}
        done == outcome = "raised" \/ pending = {}
    IN [fanout EXCEPT
           !.pending = pending,
           !.delivered = IF outcome = "delivered"
                         THEN @ \cup {conversationId} ELSE @,
           !.sendFailed = IF outcome = "sendFailed"
                          THEN @ \cup {conversationId} ELSE @,
           !.raised = IF outcome = "raised"
                      THEN @ \cup {conversationId} ELSE @,
           !.status = IF done THEN "returned" ELSE @]

Settled_dropEvicted(fanout, conversationId, outcome) ==
    LET pending == fanout.pending \ {conversationId}
        done == outcome = "raised" \/ pending = {}
    IN [fanout EXCEPT
           !.attempted = {r \in @ : r.conversationId
                                       \in DOMAIN conversationReferences},
           !.pending = pending,
           !.delivered = IF outcome = "delivered"
                         THEN @ \cup {conversationId} ELSE @,
           !.sendFailed = IF outcome = "sendFailed"
                          THEN @ \cup {conversationId} ELSE @,
           !.raised = IF outcome = "raised"
                      THEN @ \cup {conversationId} ELSE @,
           !.status = IF done THEN "returned" ELSE @]

Settled(fanout, conversationId, outcome) ==
    LET pending == fanout.pending \ {conversationId}
        done == outcome = "raised" \/ pending = {}
    IN [fanout EXCEPT
           !.pending = pending,
           !.delivered = IF outcome = "delivered"
                         THEN @ \cup {conversationId} ELSE @,
           !.sendFailed = IF outcome = "sendFailed"
                          THEN @ \cup {conversationId} ELSE @,
           !.raised = IF outcome = "raised"
                      THEN @ \cup {conversationId} ELSE @,
           !.status = IF done THEN "returned" ELSE @]

\* the dispatch of fanout f to a conversation settles; when this makes
\* sendNotification return, the handler that awaits it responds
DispatchSettles(f, conversationId, outcome) ==
    /\ f \in 1..Len(fanouts)
    /\ conversationId \in fanouts[f].pending
    /\ LET after == Settled(fanouts[f], conversationId, outcome)
           caller == fanouts[f].caller
       IN /\ fanouts' = [fanouts EXCEPT ![f] = after]
          /\ alertRequests' =
                IF /\ caller # 0
                   /\ fanouts[f].status = "awaiting"
                   /\ after.status = "returned"
                THEN [alertRequests EXCEPT
                         ![caller] = AlertSuccessResponse(@)]
                ELSE alertRequests
    /\ UNCHANGED <<clockVars, sessionVars, prefVars, threadVars, env,
                   botInitializer, agentConnector, adaptiveCardTemplate,
                   notificationRequests, historyVars, endpointVars>>

\* ProactiveNotifier.sendMessage called directly
SendMessage(message, priority, targetUsers) ==
    /\ Len(fanouts) < MaxFanouts
    /\ fanouts' =
          Append(fanouts,
                 NewFanout(MessagePayload(message, priority), targetUsers, 0))
    /\ UNCHANGED <<clockVars, sessionVars, prefVars, threadVars, httpVars,
                   historyVars, endpointVars>>

(***************************************************************************)
(* The HTTP function module (src/unnamed/part_006).                        *)
(***************************************************************************)
\* BotInitializer.getConfigFromEnvironment, new BotInitializer(config) and
\* new AgentConnector() complete without throwing
CanInitialize_withoutAgentId ==
    /\ "MicrosoftAppId" \in env
    /\ "MicrosoftAppPassword" \in env
    /\ "PROJECT_CONNECTION_STRING" \in env

CanInitialize ==
    /\ "MicrosoftAppId" \in env
    /\ "MicrosoftAppPassword" \in env
    /\ "PROJECT_CONNECTION_STRING" \in env
    /\ "AGENT_ID" \in env

\* the alert the /api/securityAlert handler builds from the request body
AlertOfRequest_lowByDefault(body) ==
    [id |-> body.id,
     title |-> body.title,
     description |-> body.description,
     severity |-> IF body.severity # None THEN body.severity ELSE "low",
     category |-> IF body.category # None THEN body.category ELSE "threat",
     source |-> IF body.source # None THEN body.source ELSE "Security System"]

AlertOfRequest(body) ==
    [id |-> body.id,
     title |-> body.title,
     description |-> body.description,
     severity |-> IF body.severity # None THEN body.severity ELSE "medium",
     category |-> IF body.category # None THEN body.category ELSE "threat",
     source |-> IF body.source # None THEN body.source ELSE "Security System"]

\* the record of a request to /api/securityAlert
AlertRequestRecord(body, pc, status, success) ==
    [body |-> body, pc |-> pc, status |-> status, success |-> success,
     recipientCount |-> 0, alertId |-> body.id, fanout |-> 0]

\* the handler of POST /api/securityAlert up to the await of
\* sendSecurityAlert; when sendNotification returns at once the response
\* is part of this step
SecurityAlertRequest(body) ==
    /\ Len(alertRequests) < MaxRequests
    /\ Len(fanouts) < MaxFanouts
    /\ IF body.id = None \/ body.title = None \/ body.description = None
       THEN /\ alertRequests' =
                  Append(alertRequests,
                         AlertRequestRecord(body, "responded", 400, FALSE))
            /\ UNCHANGED <<fanouts, botInitializer, agentConnector>>
       ELSE IF ~botInitializer /\ ~CanInitialize
       THEN /\ alertRequests' =
                  Append(alertRequests,
                         AlertRequestRecord(body, "responded", 500, FALSE))
            /\ UNCHANGED <<fanouts, botInitializer, agentConnector>>
       ELSE LET index == Len(alertRequests) + 1
                fanout == NewFanout(AlertPayload(AlertOfRequest(body)),
                                    body.targetUsers, index)
                request == [AlertRequestRecord(body, "sending", 0, FALSE)
                               EXCEPT !.fanout = Len(fanouts) + 1]
            IN /\ botInitializer' = TRUE
               /\ agentConnector' = (agentConnector \/ ~botInitializer)
               /\ fanouts' = Append(fanouts, fanout)
               /\ alertRequests' =
                     Append(alertRequests,
                            IF fanout.status = "returned"
                            THEN AlertSuccessResponse(request)
                            ELSE request)
    /\ UNCHANGED <<clockVars, sessionVars, prefVars, threadVars, env,
                   adaptiveCardTemplate, notificationRequests, historyVars,
                   endpointVars>>

(***************************************************************************)
(* agentConnector.ts: AgentConnector.processPrompt, one step per await.     *)
(***************************************************************************)
\* the reply processPrompt returns when the run produced no text
FallbackMessage ==
    "I'm sorry, I couldn't process your request at the moment. Please try again later."

\* the text of the agent's latest message
AgentAnswer == "answer"

\* conversationId ? this.threadCache.get(conversationId) : undefined
CachedThread_none(connector, conversationId) == NoThread

CachedThread(connector, conversationId) ==
    IF conversationId # None /\ conversationId \in DOMAIN threadCache[connector]
    THEN threadCache[connector][conversationId]
    ELSE NoThread

\* the record of a processPrompt invocation that has just been entered;
\* caller is the /api/notification request that awaits it, 0 for another
\* caller
NewCall(connector, conversationId, caller) ==
    LET threadId == CachedThread(connector, conversationId)
    IN [connector |-> connector,
        conversationId |-> conversationId,
        caller |-> caller,
        threadId |-> threadId,
        pc |-> IF threadId = NoThread THEN "createThread" ELSE "createMessage",
        createRequests |-> IF threadId = NoThread THEN 1 ELSE 0,
        message |-> None]

\* processPrompt up to its first await: the cache lookup and, on a miss,
\* the createThread request
ProcessPromptStart(connector, conversationId) ==
    /\ Len(calls) < MaxCalls
    /\ calls' = Append(calls, NewCall(connector, conversationId, 0))
    /\ UNCHANGED <<clockVars, sessionVars, prefVars, threadCache,
                   threadsCreated, fanoutVars, httpVars, historyVars,
                   endpointVars>>

\* createThread returns a thread: its id is cached under the conversationId
CreateThreadReturns_keepFirst(i) ==
    /\ i \in 1..Len(calls)
    /\ calls[i].pc = "createThread"
    /\ threadsCreated' = threadsCreated + 1
    /\ calls' = [calls EXCEPT ![i].threadId = threadsCreated + 1,
                              ![i].pc = "createMessage"]
    /\ threadCache' =
          IF /\ calls[i].conversationId # None
             /\ calls[i].conversationId
                   \notin DOMAIN threadCache[calls[i].connector]
          THEN [threadCache EXCEPT ![calls[i].connector] =
                   MapSet(@, calls[i].conversationId, threadsCreated + 1)]
          ELSE threadCache

CreateThreadReturns_cacheAlways(i) ==
    /\ i \in 1..Len(calls)
    /\ calls[i].pc = "createThread"
    /\ threadsCreated' = threadsCreated + 1
    /\ calls' = [calls EXCEPT ![i].threadId = threadsCreated + 1,
                              ![i].pc = "createMessage"]
    /\ threadCache' =
          [threadCache EXCEPT ![calls[i].connector] =
              MapSet(@, calls[i].conversationId, threadsCreated + 1)]

CreateThreadReturns(i) ==
    /\ i \in 1..Len(calls)
    /\ calls[i].pc = "createThread"
    /\ threadsCreated' = threadsCreated + 1
    /\ calls' = [calls EXCEPT ![i].threadId = threadsCreated + 1,
                              ![i].pc = "createMessage"]
    /\ threadCache' =
          IF calls[i].conversationId # None
          THEN [threadCache EXCEPT ![calls[i].connector] =
                   MapSet(@, calls[i].conversationId, threadsCreated + 1)]
          ELSE threadCache

\* createMessage returns
CreateMessageReturns(i) ==
    /\ i \in 1..Len(calls)
    /\ calls[i].pc = "createMessage"
    /\ calls' = [calls EXCEPT ![i].pc = "createAndPollRun"]
    /\ UNCHANGED <<threadCache, threadsCreated>>

\* createAndPollRun returns a run: completed, failed, or another terminal
\* status (cancelled, expired)
CreateAndPollRunReturns(i, status) ==
    /\ i \in 1..Len(calls)
    /\ calls[i].pc = "createAndPollRun"
    /\ calls' =
          CASE status = "completed" -> [calls EXCEPT ![i].pc = "listMessages"]
            [] status = "failed" -> [calls EXCEPT ![i].pc = "thrown"]
            [] OTHER -> [calls EXCEPT ![i].pc = "returned",
                                      ![i].message = FallbackMessage]
    /\ UNCHANGED <<threadCache, threadsCreated>>

\* listMessages returns: with a text message or without one
ListMessagesReturns(i, hasText) ==
    /\ i \in 1..Len(calls)
    /\ calls[i].pc = "listMessages"
    /\ calls' = [calls EXCEPT ![i].pc = "returned",
                              ![i].message = IF hasText THEN AgentAnswer
                                             ELSE FallbackMessage]
    /\ UNCHANGED <<threadCache, threadsCreated>>

\* the backend call that processPrompt awaits rejects: the error is logged
\* and thrown again
BackendCallThrows(i) ==
    /\ i \in 1..Len(calls)
    /\ calls[i].pc \in {"createThread", "createMessage", "createAndPollRun",
                        "listMessages"}
    /\ calls' = [calls EXCEPT ![i].pc = "thrown"]
    /\ UNCHANGED <<threadCache, threadsCreated>>

\* the steps of a processPrompt invocation after its first await
ProcessPromptStep(i) ==
    /\ \/ CreateThreadReturns(i)
       \/ CreateMessageReturns(i)
       \/ \E status \in {"completed", "failed", "expired"} :
             CreateAndPollRunReturns(i, status)
       \/ \E hasText \in BOOLEAN : ListMessagesReturns(i, hasText)
       \/ BackendCallThrows(i)
    /\ i \in 1..Len(calls)
    /\ calls[i].caller = 0
    /\ UNCHANGED <<clockVars, sessionVars, prefVars, fanoutVars, httpVars,
                   historyVars, endpointVars>>

\* AgentConnector.cleanupThreadCache
CleanupThreadCache_atLimit(connector) ==
    /\ threadCache' =
          IF Cardinality(DOMAIN threadCache[connector]) >= 100
          THEN [threadCache EXCEPT ![connector] = EmptyMap]
          ELSE threadCache
    /\ returned' = [NoReturn EXCEPT !.op = "cleanupThreadCache",
                                    !.connector = connector]
    /\ UNCHANGED <<clockVars, sessionVars, prefVars, threadsCreated, calls,
                   fanoutVars, httpVars, updatesApplied, evictedEver,
                   textsSent, maxCount, endpointVars>>

CleanupThreadCache(connector) ==
    /\ threadCache' =
          IF Cardinality(DOMAIN threadCache[connector]) > 100
          THEN [threadCache EXCEPT ![connector] = EmptyMap]
          ELSE threadCache
    /\ returned' = [NoReturn EXCEPT !.op = "cleanupThreadCache",
                                    !.connector = connector]
    /\ UNCHANGED <<clockVars, sessionVars, prefVars, threadsCreated, calls,
                   fanoutVars, httpVars, updatesApplied, evictedEver,
                   textsSent, maxCount, endpointVars>>

\* a processPrompt invocation is between its entry and its return or throw
InFlight(i) == calls[i].pc \notin {"returned", "thrown"}

\* getStoredConversationReferences: no storage is implemented, the array
\* it returns is always empty
getStoredConversationReferences == {}

\* the loop of sendNotificationsToAllInstallations: the stored references
\* it does not skip
InstallationsToNotify(targetUsers, targetChannels) ==
    {r \in getStoredConversationReferences :
        /\ (targetUsers # Absent /\ targetUsers.items # {}) =>
              ~(r.userId # None /\ r.userId \notin targetUsers.items)
        /\ (targetChannels # Absent /\ targetChannels.items # {}) =>
              r.channelId \in targetChannels.items}

\* the record of a request to /api/notification
NotificationRequestRecord(body, pc, status, success) ==
    [body |-> body, pc |-> pc, status |-> status, success |-> success,
     recipientCount |-> 0, card |-> None, known |-> {}, sent |-> {}]

\* httpTrigger, the handler of /api/notification, up to the await of
\* processPrompt
NotificationRequest(method, body) ==
    /\ Len(notificationRequests) < MaxRequests
    /\ Len(calls) < MaxCalls
    /\ IF ~botInitializer /\ ~CanInitialize
       THEN /\ notificationRequests' =
                  Append(notificationRequests,
                         NotificationRequestRecord(body, "responded", 500, FALSE))
            /\ UNCHANGED <<calls, botInitializer, agentConnector,
                           adaptiveCardTemplate>>
       ELSE /\ botInitializer' = TRUE
            /\ agentConnector' = (agentConnector \/ ~botInitializer)
            /\ adaptiveCardTemplate' = (adaptiveCardTemplate \/ ~botInitializer)
            /\ IF method # "POST"
               THEN /\ notificationRequests' =
                          Append(notificationRequests,
                                 NotificationRequestRecord(body, "responded",
                                                           405, FALSE))
                    /\ UNCHANGED calls
               ELSE IF body.prompt = None
               THEN /\ notificationRequests' =
                          Append(notificationRequests,
                                 NotificationRequestRecord(body, "responded",
                                                           400, FALSE))
                    /\ UNCHANGED calls
               ELSE /\ notificationRequests' =
                          Append(notificationRequests,
                                 NotificationRequestRecord(body, "processing",
                                                           0, FALSE))
                    /\ calls' =
                          Append(calls,
                                 NewCall("http", None,
                                         Len(notificationRequests) + 1))
    /\ UNCHANGED <<clockVars, sessionVars, prefVars, threadCache,
                   threadsCreated, fanoutVars, env, alertRequests, historyVars,
                   endpointVars>>

\* httpTrigger after processPrompt has returned: the card is generated,
\* sendNotificationsToAllInstallations sends to the stored references one
\* after the other (failed: those whose send throws) and the response is
\* built
NotificationSuccessResponse(request, failed) ==
    LET matched == InstallationsToNotify(request.body.targetUsers,
                                         request.body.targetChannels)
        sent == {r.conversationId : r \in matched \ failed}
    IN [request EXCEPT
           !.pc = "responded",
           !.status = 200,
           !.success = TRUE,
           !.card = IF adaptiveCardTemplate THEN "template" ELSE "fallback",
           !.known = DOMAIN conversationReferences,
           !.sent = sent,
           !.recipientCount = Cardinality(sent)]

\* httpTrigger after processPrompt has thrown
NotificationErrorResponse(request) ==
    [request EXCEPT !.pc = "responded", !.status = 500]

\* a step of the processPrompt invocation a /api/notification request
\* awaits; when the invocation returns or throws, the handler responds
NotificationCallStep(i) ==
    /\ i \in 1..Len(calls)
    /\ calls[i].caller # 0
    /\ \/ CreateThreadReturns(i)
       \/ CreateMessageReturns(i)
       \/ \E status \in {"completed", "failed", "expired"} :
             CreateAndPollRunReturns(i, status)
       \/ \E hasText \in BOOLEAN : ListMessagesReturns(i, hasText)
       \/ BackendCallThrows(i)
    /\ \E failed \in SUBSET InstallationsToNotify(
                        notificationRequests[calls[i].caller].body.targetUsers,
                        notificationRequests[calls[i].caller].body.targetChannels) :
          notificationRequests' =
             CASE calls'[i].pc = "returned" ->
                    [notificationRequests EXCEPT ![calls[i].caller] =
                        NotificationSuccessResponse(@, failed)]
               [] calls'[i].pc = "thrown" ->
                    [notificationRequests EXCEPT ![calls[i].caller] =
                        NotificationErrorResponse(@)]
               [] OTHER -> notificationRequests
    /\ UNCHANGED <<clockVars, sessionVars, prefVars, fanoutVars, env,
                   botInitializer, agentConnector, adaptiveCardTemplate,
                   alertRequests, historyVars, endpointVars>>

(***************************************************************************)
(* Inputs.                                                                 *)
(***************************************************************************)
\* "URGENT audit": a critical and a medium keyword, topic compliance
MsgUrgentAudit ==
    <<"U", "R", "G", "E", "N", "T", " ", "a", "u", "d", "i", "t">>

\* " Hi ": no keyword, surrounded by blanks
MsgHi ==
    <<" ", "H", "i", " ">>

\* "Patch": no urgency keyword, topic vulnerability management
MsgPatch ==
    <<"P", "a", "t", "c", "h">>

\* an activity without text
NoText == <<>>

(***************************************************************************)
(* Sessions: updates, eviction sweeps and the clock.                       *)
(***************************************************************************)
\* minutes by which the clock advances in one step of the session runs
SessionTicks == {720}

\* the activities that arrive: <<conversation.id, from.id, text>>
SessionArrivals ==
    {<<"c1", "u1", NoText>>, <<"c1", "u1", MsgUrgentAudit>>,
     <<"c1", "u1", MsgHi>>, <<"c2", "u2", MsgHi>>}

NextSession ==
    \/ \E a \in SessionArrivals : Update(a[1], a[2], a[3])
    \/ CleanupOldStates(24)
    \/ \E d \in SessionTicks : Tick(d)

SpecSession == Init /\ [][NextSession]_vars

(***************************************************************************)
(* Properties of the sessions.                                             *)
(***************************************************************************)
\* C6: for every conversation whose session was never evicted, messageCount
\* equals the number of updates applied to the conversation, however the
\* updates of the conversations interleave.
C6_MessageCountIsUpdateCount ==
    \A c \in DOMAIN conversationStates :
        c \notin evictedEver =>
            conversationStates[c].messageCount = updatesApplied[c]

\* three updates of c1 interleaved with two of c2
C6_Witness ==
    /\ {"c1", "c2"} \subseteq DOMAIN conversationStates
    /\ evictedEver = {}
    /\ updatesApplied["c1"] = 3
    /\ updatesApplied["c2"] = 2
    /\ conversationStates["c1"].lastActivity < conversationStates["c2"].lastActivity

\* the normalized (lower-cased, trimmed) form of each message that arrives
ExpectedQuery(text) ==
    CASE text = MsgUrgentAudit -> <<"u", "r", "g", "e", "n", "t", " ", "a", "u", "d", "i", "t">>
      [] text = MsgHi -> <<"h", "i">>
      [] text = MsgPatch -> <<"p", "a", "t", "c", "h">>

\* C7: previousQueries never holds more than 5 entries, and for a session
\* never evicted it is the normalized form of the last min(N, 5) of the N
\* texts its updates carried, in arrival order.
C7_RecentQueriesAreLastFive ==
    \A c \in DOMAIN conversationStates :
        LET q == conversationStates[c].previousQueries
            n == Len(textsSent[c])
            k == IF n < 5 THEN n ELSE 5
        IN /\ Len(q) <= 5
           /\ c \notin evictedEver =>
                 /\ Len(q) = k
                 /\ \A i \in 1..k : q[i] = ExpectedQuery(textsSent[c][n - k + i])

\* a sixth text has arrived and the first one, which differs from the
\* second, was dropped
C7_Witness ==
    /\ "c1" \in DOMAIN conversationStates
    /\ "c1" \notin evictedEver
    /\ Len(textsSent["c1"]) = 6
    /\ textsSent["c1"][1] = MsgUrgentAudit
    /\ textsSent["c1"][2] = MsgHi
    /\ conversationStates["c1"].previousQueries[1] = ExpectedQuery(MsgHi)

\* C8 as claimed: whenever the session of a conversation exists, its
\* messageCount is at least every messageCount observed for that
\* conversation before, eviction sweeps included.
C8_NeverBelowEarlierCount ==
    \A c \in DOMAIN conversationStates :
        conversationStates[c].messageCount >= maxCount[c]

\* C8 amended: messageCount does not decrease in any step that the session
\* survives; only the removal of the session by an eviction sweep ends the
\* count, and the session created afterwards starts again at 1.
C8_NoDecreaseWhileSessionExists ==
    [][\A c \in DOMAIN conversationStates \cap DOMAIN conversationStates' :
          conversationStates'[c].messageCount >=
              conversationStates[c].messageCount]_vars

\* a session created again after an eviction has been updated
C8_Witness ==
    /\ "c1" \in evictedEver
    /\ "c1" \in DOMAIN conversationStates
    /\ conversationStates["c1"].messageCount = 2
    /\ maxCount["c1"] > 2

\* C9: an update that carries a text leaves the session with the urgency
\* and the topic of that text alone.
C9_UrgencyAndTopicOfNewText ==
    [][\A c \in ConversationIds :
          textsSent'[c] # textsSent[c] =>
              LET t == textsSent'[c][Len(textsSent'[c])]
              IN /\ conversationStates'[c].securityLevel = detectSecurityLevel(t)
                 /\ conversationStates'[c].currentTopic = detectCurrentTopic(t)]_vars

\* a critical message followed by a neutral one: the session is at low
C9_Witness ==
    /\ "c1" \in DOMAIN conversationStates
    /\ Len(textsSent["c1"]) = 2
    /\ textsSent["c1"][1] = MsgUrgentAudit
    /\ textsSent["c1"][2] = MsgHi
    /\ maxCount["c1"] = 2
    /\ conversationStates["c1"].securityLevel = "low"
    /\ conversationStates["c1"].currentTopic = "general security"

(***************************************************************************)
(* Eviction of sessions.                                                   *)
(***************************************************************************)
\* minutes by which the clock advances in one step of the eviction runs
EvictionTicks == {720}

\* the activities that arrive: messages of two conversations
EvictionArrivals == {<<"c1", "u1", MsgHi>>, <<"c2", "u2", MsgPatch>>}

\* the values of maxAgeHours cleanupOldStates is called with
CleanupHours == {12, 24}

\* updateConversationState and cleanupOldStates have no await: each call
\* runs to its end before another one starts, in any order
NextEviction ==
    \/ \E a \in EvictionArrivals : Update(a[1], a[2], a[3])
    \/ \E d \in EvictionTicks : Tick(d)
    \/ \E h \in CleanupHours : CleanupOldStates(h)
    \/ \E c \in ConversationIds : GetConversationState(c)

SpecEviction == Init /\ [][NextEviction]_vars

\* the step is a call of cleanupOldStates
IsCleanupStep ==
    /\ returned'.op = "cleanupOldStates"
    /\ updatesApplied' = updatesApplied
    /\ now' = now

\* the sessions whose last activity is strictly before now minus h hours
OlderThan(h) ==
    {c \in DOMAIN conversationStates :
        conversationStates[c].lastActivity < now - 60 * h}

\* C17: cleanupOldStates(h) removes exactly the sessions whose lastActivity
\* is strictly older than now minus h hours, together with their
\* references, leaves every other session as it was, and returns the
\* number of sessions it removed; getConversationState returns the
\* session of a conversation that has one and undefined otherwise, so
\* undefined for a conversation just evicted.
C17_EvictsExactlyTheOldSessions ==
    /\ [][IsCleanupStep =>
            LET old == OlderThan(returned'.maxAgeHours)
            IN /\ DOMAIN conversationStates' = DOMAIN conversationStates \ old
               /\ DOMAIN conversationReferences'
                     = DOMAIN conversationReferences \ old
               /\ \A c \in DOMAIN conversationStates' :
                     conversationStates'[c] = conversationStates[c]
               /\ cleanedCount' = Cardinality(old)
               /\ \A c \in old : getConversationState(c)' = Absent]_vars
    /\ [][(returned' # returned /\ returned'.op = "getConversationState")
          => returned'.state =
                IF returned'.conversationId \in DOMAIN conversationStates
                THEN conversationStates[returned'.conversationId]
                ELSE Absent]_vars

\* a sweep of 24 hours at 36:00 removed the session of c1, last active at
\* 00:00, and kept the session of c2, last active at 12:00, exactly 24
\* hours before; getConversationState of c1 then returned undefined
C17_Witness ==
    /\ now = 2160
    /\ evictedEver = {"c1"}
    /\ cleanedCount = 1
    /\ DOMAIN conversationStates = {"c2"}
    /\ conversationStates["c2"].lastActivity = 720
    /\ returned.op = "getConversationState"
    /\ returned.conversationId = "c1"
    /\ returned.state = Absent

\* C18: in every order of cleanupOldStates and updateConversationState
\* calls, a session whose lastActivity is at or after the cutoff of a sweep
\* is still there after the sweep, unchanged and with its reference; an
\* update leaves the session of its conversation with the current time,
\* a reference, and a messageCount one higher than before or 1 for a new
\* session; a session and its reference exist together or not at all.
C18_SweepsAndUpdatesDoNotInterfere ==
    /\ [](DOMAIN conversationStates = DOMAIN conversationReferences)
    /\ [][IsCleanupStep =>
            \A c \in DOMAIN conversationStates \ OlderThan(returned'.maxAgeHours) :
                /\ c \in DOMAIN conversationStates'
                /\ c \in DOMAIN conversationReferences'
                /\ conversationStates'[c] = conversationStates[c]
                /\ conversationReferences'[c] = conversationReferences[c]]_vars
    /\ [][\A c \in ConversationIds :
            updatesApplied'[c] # updatesApplied[c]
            => /\ c \in DOMAIN conversationStates'
               /\ c \in DOMAIN conversationReferences'
               /\ conversationStates'[c].lastActivity = now
               /\ conversationStates'[c].messageCount =
                     IF c \in DOMAIN conversationStates
                     THEN conversationStates[c].messageCount + 1 ELSE 1
               /\ \A d \in DOMAIN conversationStates \ {c} :
                     /\ d \in DOMAIN conversationStates'
                     /\ conversationStates'[d] = conversationStates[d]]_vars

\* c1 was evicted by a sweep that kept c2, and was then updated again: its
\* new session has its reference and counts from 1
C18_Witness ==
    /\ evictedEver = {"c1"}
    /\ updatesApplied["c1"] = 3
    /\ DOMAIN conversationStates = {"c1", "c2"}
    /\ DOMAIN conversationReferences = {"c1", "c2"}
    /\ conversationStates["c1"].messageCount = 1
    /\ conversationStates["c1"].lastActivity = now
    /\ conversationStates["c2"].messageCount = 2

(***************************************************************************)
(* Prompt enhancement.                                                     *)
(***************************************************************************)
\* the activities that arrive: without text, with a text of no topic, with
\* a text about patches
EnhanceArrivals ==
    {<<"c1", "u1", NoText>>, <<"c1", "u1", MsgHi>>, <<"c1", "u1", MsgPatch>>}

\* the prompts that are enhanced
Prompts == {<<>>, <<"o", "k">>}

NextEnhance ==
    \/ \E a \in EnhanceArrivals : Update(a[1], a[2], a[3])
    \/ \E p \in Prompts, c \in {"c1", "c2"} : EnhancePromptWithContext(p, c)

SpecEnhance == Init /\ [][NextEnhance]_vars

\* the step is a call of enhancePromptWithContext
IsEnhanceStep ==
    returned' # returned /\ returned'.op = "enhancePromptWithContext"

\* a string contains a piece
HasPiece(string, piece) == \E i \in 1..Len(string) : string[i] = piece

\* C19: enhancePromptWithContext returns the prompt itself for a
\* conversation without a session and for a session without recorded
\* queries; for a session with recorded queries the result begins with
\* the prompt and is longer than the prompt.
C19_EnhanceKeepsPromptAsPrefix ==
    [][IsEnhanceStep =>
          LET c == returned'.conversationId
              prompt == returned'.prompt
              result == returned'.text
          IN IF \/ c \notin DOMAIN conversationStates
                \/ conversationStates[c].previousQueries = <<>>
             THEN result = prompt
             ELSE /\ Len(result) > Len(prompt)
                  /\ SubSeq(result, 1, Len(prompt)) = prompt]_vars

\* the prompt "ok" was enhanced for c1, which has two recorded queries
C19_Witness ==
    /\ returned.op = "enhancePromptWithContext"
    /\ returned.conversationId = "c1"
    /\ returned.prompt = <<"o", "k">>
    /\ "c1" \in DOMAIN conversationStates
    /\ Len(conversationStates["c1"].previousQueries) = 2
    /\ Len(returned.text) > 2
    /\ SubSeq(returned.text, 1, 2) = <<"o", "k">>

\* C20 as claimed: for a session with recorded queries the result of
\* enhancePromptWithContext has the current-topic line exactly when the
\* topic of the session is known and is not the default topic, general
\* security, and has the recent-queries line exactly when more than one
\* query is recorded, and then the line lists the last three at most.
C20_TopicLineOnlyForSpecificTopic ==
    [][(/\ IsEnhanceStep
        /\ returned'.conversationId \in DOMAIN conversationStates
        /\ conversationStates[returned'.conversationId].previousQueries # <<>>)
       => LET state == conversationStates[returned'.conversationId]
              result == returned'.text
          IN /\ HasPiece(result, ContextLine)
                   <=> (/\ state.currentTopic # None
                        /\ state.currentTopic # "general security")
             /\ HasPiece(result, RecentLine)
                   <=> Len(state.previousQueries) > 1
             /\ Len(state.previousQueries) > 1
                   => \E i \in 1..Len(result) :
                         /\ result[i] = RecentLine
                         /\ \E n \in 2..3 :
                               LET list == Join(SliceLast(state.previousQueries, n))
                               IN /\ n = Len(state.previousQueries) \/ n = 3
                                  /\ SubSeq(result, i + 1, i + Len(list)) = list
                                  /\ result[i + Len(list) + 1] = PreferenceLine]_vars

(***************************************************************************)
(* Thread correlation.                                                     *)
(***************************************************************************)
\* the processPrompt invocations that are made: <<connector, conversationId>>
ThreadCalls ==
    {<<"teamsBot", "c1">>, <<"teamsBot", "c2">>, <<"agentBot", "c1">>,
     <<"http", None>>}

\* the invocations follow one another: an invocation starts when no
\* earlier one is still running
NextThreadSequential ==
    \/ \E a \in ThreadCalls :
          /\ \A i \in 1..Len(calls) : ~InFlight(i)
          /\ ProcessPromptStart(a[1], a[2])
    \/ \E i \in 1..MaxCalls : ProcessPromptStep(i)

SpecThreadSequential == Init /\ [][NextThreadSequential]_vars

\* C10: of the sequential processPrompt calls of one connector with the
\* same conversationId, the first one that obtains a thread requests
\* exactly one thread and caches it; every later call requests no thread
\* and uses that same thread id.
C10_SequentialCallsShareThread ==
    \A j \in 1..Len(calls) :
        LET cj == calls[j]
            earlier == {i \in 1..(j - 1) :
                           /\ calls[i].connector = cj.connector
                           /\ calls[i].conversationId = cj.conversationId
                           /\ calls[i].threadId # NoThread}
        IN cj.conversationId # None =>
              IF earlier = {}
              THEN /\ cj.createRequests = 1
                   /\ cj.threadId # NoThread =>
                         threadCache[cj.connector][cj.conversationId] = cj.threadId
              ELSE /\ cj.createRequests = 0
                   /\ \A i \in earlier : cj.threadId = calls[i].threadId

\* three calls for c1 on the same connector have returned with one thread
C10_Witness ==
    /\ Len(calls) = 3
    /\ \A i \in 1..3 :
          /\ calls[i].connector = "teamsBot"
          /\ calls[i].conversationId = "c1"
          /\ calls[i].pc = "returned"
          /\ calls[i].threadId = 1
    /\ threadsCreated = 1

\* C12 as claimed: once a processPrompt call that used a thread of a
\* conversation has failed, the cache of its connector no longer maps the
\* conversationId to that thread, so that the next call creates a thread.
C12_FailedCallDropsCachedThread ==
    \A i \in 1..Len(calls) :
        (/\ calls[i].pc = "thrown"
         /\ calls[i].conversationId # None
         /\ calls[i].threadId # NoThread)
        => \/ calls[i].conversationId
                \notin DOMAIN threadCache[calls[i].connector]
           \/ threadCache[calls[i].connector][calls[i].conversationId]
                # calls[i].threadId

\* the numbers of conversations the connector of TeamsBot has served, each
\* with a thread of its own, before the behaviour starts
CacheSizes == {99, 101}

\* the cache after n sequential processPrompt calls for n conversations
FilledCache(n) ==
    [c \in {"s" \o ToString(i) : i \in 1..n} |->
        CHOOSE i \in 1..n : c = "s" \o ToString(i)]

InitFilledCache ==
    \E n \in CacheSizes :
        /\ now = 0
        /\ conversationStates = EmptyMap
        /\ conversationReferences = EmptyMap
        /\ userPreferences = EmptyMap
        /\ cleanedCount = None
        /\ threadCache = [k \in Connectors |->
                             IF k = "teamsBot" THEN FilledCache(n) ELSE EmptyMap]
        /\ threadsCreated = n
        /\ calls = <<>>
        /\ fanouts = <<>>
        /\ env = EnvNames
        /\ botInitializer = FALSE
        /\ agentConnector = FALSE
        /\ adaptiveCardTemplate = FALSE
        /\ alertRequests = <<>>
        /\ notificationRequests = <<>>
        /\ updatesApplied = [c \in ConversationIds |-> 0]
        /\ evictedEver = {}
        /\ textsSent = [c \in ConversationIds |-> <<>>]
        /\ maxCount = [c \in ConversationIds |-> 0]
        /\ prefSets = 0
        /\ returned = NoReturn
        /\ messageBotInitializer = FALSE
        /\ turns = <<>>
        /\ healthRequests = <<>>

\* the processPrompt invocations made while the cache is near its limit
CleanupCalls == {<<"teamsBot", "c1">>, <<"teamsBot", "c2">>}

NextThreadCleanup ==
    \/ \E a \in CleanupCalls :
          /\ \A i \in 1..Len(calls) : ~InFlight(i)
          /\ ProcessPromptStart(a[1], a[2])
    \/ \E i \in 1..MaxCalls : ProcessPromptStep(i)
    \/ \E k \in Connectors : CleanupThreadCache(k)

SpecThreadCleanup == InitFilledCache /\ [][NextThreadCleanup]_vars

ConcurrentCalls ==
    {<<"teamsBot", "c1">>, <<"teamsBot", "c2">>, <<"agentBot", "c1">>}

\* an invocation starts at any time, also while earlier ones are awaiting
\* the backend
NextThreadConcurrent ==
    \/ \E a \in ConcurrentCalls :
          /\ Len(calls) < MaxConcurrentCalls
          /\ ProcessPromptStart(a[1], a[2])
    \/ \E i \in 1..MaxCalls : ProcessPromptStep(i)

SpecThreadConcurrent == Init /\ [][NextThreadConcurrent]_vars

\* the processPrompt invocations of a connector for a conversation that
\* have obtained a thread
CallsWithThread(connector, conversationId) ==
    {i \in 1..Len(calls) :
        /\ calls[i].connector = connector
        /\ calls[i].conversationId = conversationId
        /\ calls[i].threadId # NoThread}

\* C11: two processPrompt calls of one connector for the same
\* conversationId that both found no cached thread each request a thread,
\* and once both have one the two thread ids differ; the cache then maps
\* the conversationId to one thread id, that of the createThread that
\* returned last: every createThread that returns writes its thread id
\* over the mapping.
C11_ConcurrentMissesCreateTwoThreads ==
    /\ [](\A i, j \in 1..Len(calls) :
            (/\ i < j
             /\ calls[i].connector = calls[j].connector
             /\ calls[i].conversationId = calls[j].conversationId
             /\ calls[i].conversationId # None
             /\ calls[i].createRequests = 1
             /\ calls[j].createRequests = 1
             /\ calls[i].threadId # NoThread
             /\ calls[j].threadId # NoThread)
            => LET k == calls[i].connector
                   c == calls[i].conversationId
               IN /\ calls[i].threadId # calls[j].threadId
                  /\ threadsCreated >= 2
                  /\ c \in DOMAIN threadCache[k]
                  /\ \A n \in CallsWithThread(k, c) :
                        calls[n].threadId <= threadCache[k][c]
                  /\ \E n \in CallsWithThread(k, c) :
                        calls[n].threadId = threadCache[k][c])
    /\ [][\A i \in 1..Len(calls) :
            (/\ calls[i].pc = "createThread"
             /\ calls'[i].pc = "createMessage"
             /\ calls[i].conversationId # None)
            => /\ threadsCreated' = threadsCreated + 1
               /\ calls'[i].threadId = threadsCreated'
               /\ threadCache'[calls[i].connector][calls[i].conversationId]
                     = calls'[i].threadId]_vars

\* two calls for c1 overlapped: the one that started second got thread 1,
\* the one that started first got thread 2, which is the one cached
C11_Witness ==
    /\ Len(calls) >= 2
    /\ \A i \in 1..2 :
          /\ calls[i].connector = "teamsBot"
          /\ calls[i].conversationId = "c1"
          /\ calls[i].createRequests = 1
          /\ calls[i].pc = "returned"
    /\ calls[1].threadId = 2
    /\ calls[2].threadId = 1
    /\ threadCache["teamsBot"]["c1"] = 2

(***************************************************************************)
(* Notification preferences.                                               *)
(***************************************************************************)
\* minutes by which the clock advances in one step: 11h30 and 12h
PreferenceTicks == {690, 720}

\* quiet from 22:00 to 06:00, across midnight
QuietOvernight ==
    [start |-> <<"2", "2", ":", "0", "0">>, end |-> <<"0", "6", ":", "0", "0">>]

\* quiet from 11:30 to 12:00
QuietAtNoon ==
    [start |-> <<"1", "1", ":", "3", "0">>, end |-> <<"1", "2", ":", "0", "0">>]

\* quiet from 23:30 to 00:00, across midnight
QuietAroundMidnight ==
    [start |-> <<"2", "3", ":", "3", "0">>, end |-> <<"0", "0", ":", "0", "0">>]

\* the quiet hours users choose
QuietHoursChoices ==
    {Absent, QuietOvernight, QuietAtNoon, QuietAroundMidnight}

\* the alert types users choose
AlertTypesChoices == {{}, {"threat"}}

\* the escalation rules users choose: none, critical only, high priority
EscalationChoices == {"none", "criticalOnly", "highPriority"}

\* the NotificationPreferences object a user sets
PreferencesOf(userId, alertTypes, quietHours, escalation) ==
    [userId |-> userId,
     quietHours |-> quietHours,
     alertTypes |-> alertTypes,
     escalationRules |->
        IF escalation = "none" THEN Absent
        ELSE [criticalOnly |-> escalation = "criticalOnly",
              highPriority |-> escalation = "highPriority",
              immediateForKeywords |-> {}],
     channels |-> {}]

\* the alert types and priorities shouldNotifyUser is asked about
AskedAlertTypes == {"threat", "incident"}

AskedPriorities == {"high", "critical"}

NextPreferences ==
    \/ \E d \in PreferenceTicks : Tick(d)
    \/ \E u \in UserIds, a \in AlertTypesChoices, q \in QuietHoursChoices,
          e \in EscalationChoices :
          SetUserPreferences(u, PreferencesOf(u, a, q, e))
    \/ \E u \in UserIds, a \in AskedAlertTypes, p \in AskedPriorities :
          ShouldNotifyUser(u, a, p)

SpecPreferences == Init /\ [][NextPreferences]_vars

\* the minute of the day
MinuteOfDay == now % 1440

\* the minute of the day a time string of the preferences names
ExpectedMinute(timeStr) ==
    CASE timeStr = <<"2", "2", ":", "0", "0">> -> 22 * 60
      [] timeStr = <<"0", "6", ":", "0", "0">> -> 6 * 60
      [] timeStr = <<"1", "1", ":", "3", "0">> -> 11 * 60 + 30
      [] timeStr = <<"1", "2", ":", "0", "0">> -> 12 * 60
      [] timeStr = <<"2", "3", ":", "3", "0">> -> 23 * 60 + 30
      [] timeStr = <<"0", "0", ":", "0", "0">> -> 0

\* the current time is inside the quiet hours, computed in minutes
ExpectedQuiet(quietHours) ==
    LET start == ExpectedMinute(quietHours.start)
        end == ExpectedMinute(quietHours.end)
    IN IF start > end
       THEN MinuteOfDay >= start \/ MinuteOfDay <= end
       ELSE start <= MinuteOfDay /\ MinuteOfDay <= end

\* the three checks of a preference record
QuietHoursAllow(prefs, priority) ==
    \/ prefs.quietHours = Absent
    \/ ~ExpectedQuiet(prefs.quietHours)
    \/ priority = "critical"

AlertTypesAllow(prefs, alertType) ==
    prefs.alertTypes = {} \/ alertType \in prefs.alertTypes

EscalationAllows(prefs, priority) ==
    \/ prefs.escalationRules = Absent
    \/ ~prefs.escalationRules.criticalOnly
    \/ priority = "critical"

\* C14: shouldNotifyUser(userId, alertType, priority) returns true for a
\* user without a preference record, and for a user with one it returns
\* true exactly when the time is outside the quiet hours or the priority is
\* critical, and alertTypes is empty or contains alertType, and
\* criticalOnly is not set or the priority is critical.
C14_ShouldNotifyIsConjunctionOfChecks ==
    [][(returned' # returned /\ returned'.op = "shouldNotifyUser")
       => LET u == returned'.userId
              a == returned'.alertType
              p == returned'.priority
          IN returned'.notify =
                IF u \notin DOMAIN userPreferences THEN TRUE
                ELSE /\ QuietHoursAllow(userPreferences[u], p)
                     /\ AlertTypesAllow(userPreferences[u], a)
                     /\ EscalationAllows(userPreferences[u], p)]_vars

\* at 23:30 a critical threat passes the overnight quiet hours, the alert
\* types and criticalOnly of u1
C14_Witness ==
    /\ returned.op = "shouldNotifyUser"
    /\ returned.userId = "u1"
    /\ returned.alertType = "threat"
    /\ returned.priority = "critical"
    /\ returned.notify
    /\ MinuteOfDay = 23 * 60 + 30
    /\ "u1" \in DOMAIN userPreferences
    /\ userPreferences["u1"].quietHours = QuietOvernight
    /\ userPreferences["u1"].alertTypes = {"threat"}
    /\ userPreferences["u1"].escalationRules # Absent
    /\ userPreferences["u1"].escalationRules.criticalOnly

\* C15: isQuietHours is true for quiet hours with start > end exactly when
\* the time is at or after start or at or before end, and for start <= end
\* exactly when it is between them; with quiet hours 22:00-06:00
\* shouldNotifyUser at 23:30 is false for priority high and for priority
\* critical is what the alert types say, and at 12:00 it is what the alert
\* types and the escalation rules say.
C15_QuietHoursWrapMidnight ==
    /\ [](\A u \in DOMAIN userPreferences :
             userPreferences[u].quietHours # Absent
             => isQuietHours(userPreferences[u].quietHours)
                   = ExpectedQuiet(userPreferences[u].quietHours))
    /\ [][(/\ returned' # returned
           /\ returned'.op = "shouldNotifyUser"
           /\ returned'.userId \in DOMAIN userPreferences
           /\ userPreferences[returned'.userId].quietHours = QuietOvernight)
          => LET prefs == userPreferences[returned'.userId]
                 a == returned'.alertType
                 p == returned'.priority
             IN /\ (MinuteOfDay = 23 * 60 + 30 /\ p = "high")
                      => ~returned'.notify
                /\ (MinuteOfDay = 23 * 60 + 30 /\ p = "critical")
                      => returned'.notify = AlertTypesAllow(prefs, a)
                /\ MinuteOfDay = 12 * 60
                      => returned'.notify =
                            (AlertTypesAllow(prefs, a)
                             /\ EscalationAllows(prefs, p))]_vars

\* at 23:30 a high-priority threat is withheld from u1, whose only
\* restriction is the overnight quiet hours
C15_Witness ==
    /\ returned.op = "shouldNotifyUser"
    /\ returned.userId = "u1"
    /\ returned.priority = "high"
    /\ ~returned.notify
    /\ MinuteOfDay = 23 * 60 + 30
    /\ "u1" \in DOMAIN userPreferences
    /\ userPreferences["u1"].quietHours = QuietOvernight
    /\ userPreferences["u1"].alertTypes = {}
    /\ userPreferences["u1"].escalationRules = Absent

(***************************************************************************)
(* Proactive notification fanout.                                          *)
(***************************************************************************)
\* minutes by which the clock advances in one step of the fanout runs: 25h
FanoutTicks == {1500}

\* the first messages of three conversations, two of them of user u2
FanoutArrivals ==
    {<<"c1", "u1", MsgHi>>, <<"c2", "u2", MsgHi>>, <<"c3", "u2", MsgPatch>>}

\* quiet from 22:00 to 00:30, across midnight
QuietAtNight ==
    [start |-> <<"2", "2", ":", "0", "0">>, end |-> <<"0", "0", ":", "3", "0">>]

\* the preferences users set
PreferenceChoices ==
    {[channels |-> {}, alertTypes |-> {}, quietHours |-> QuietAtNight,
      escalationRules |-> Absent],
     [channels |-> {}, alertTypes |-> {"update"}, quietHours |-> Absent,
      escalationRules |-> Absent],
     [channels |-> {}, alertTypes |-> {}, quietHours |-> Absent,
      escalationRules |-> [highPriority |-> FALSE, criticalOnly |-> TRUE,
                           immediateForKeywords |-> {}]]}

\* the values of targetUsers callers pass
TargetChoices == {Absent, [items |-> {}], [items |-> {"u1"}]}

\* the bodies posted to /api/securityAlert
AlertBodies ==
    {[id |-> "a1", title |-> "T", description |-> "D", severity |-> None,
      category |-> None, source |-> None, targetUsers |-> Absent],
     [id |-> "a2", title |-> "T", description |-> "D", severity |-> "critical",
      category |-> "incident", source |-> "SIEM",
      targetUsers |-> [items |-> {"u1"}]],
     [id |-> "a3", title |-> None, description |-> "D", severity |-> None,
      category |-> None, source |-> None, targetUsers |-> Absent]}

NextFanout ==
    \/ \E a \in FanoutArrivals :
          /\ SumOver(updatesApplied, ConversationIds) < MaxFanoutUpdates
          /\ Update(a[1], a[2], a[3])
    \/ \E d \in FanoutTicks : Tick(d)
    \/ \E u \in UserIds, p \in PreferenceChoices :
          SetUserPreferences(u, [p EXCEPT !.channels = {}] @@ [userId |-> u])
    \/ \E body \in AlertBodies : SecurityAlertRequest(body)
    \/ \E t \in TargetChoices : SendMessage("text", "medium", t)
    \/ \E f \in 1..MaxFanouts, c \in ConversationIds,
          outcome \in {"delivered", "sendFailed", "raised"} :
          DispatchSettles(f, c, outcome)

SpecFanout == Init /\ [][NextFanout]_vars

\* C1: a fanout called with a non-empty targetUsers dispatches only to
\* references whose user id is in targetUsers; a fanout called with an
\* empty or absent targetUsers dispatches to every reference that passes
\* the preference check.
C1_FanoutRespectsTargets ==
    /\ [](\A f \in 1..Len(fanouts) :
             LET t == fanouts[f].targetUsers
             IN (t # Absent /\ t.items # {}) =>
                   \A r \in fanouts[f].attempted : r.userId \in t.items)
    /\ [][Len(fanouts') > Len(fanouts) =>
             LET new == fanouts'[Len(fanouts')]
                 t == new.targetUsers
             IN (t = Absent \/ t.items = {}) =>
                   \A c \in DOMAIN conversationReferences :
                       LET r == conversationReferences[c]
                       IN shouldNotifyUser(r.userId, new.payload.type,
                                           new.payload.priority)
                             => r \in new.attempted]_vars

\* a fanout targeted at u1 has dispatched to the conversation of u1 and not
\* to the conversation of u2, who has set no preferences
C1_Witness ==
    \E f \in 1..Len(fanouts) :
        /\ fanouts[f].targetUsers = [items |-> {"u1"}]
        /\ {r.userId : r \in fanouts[f].conversationReferences} = {"u1", "u2"}
        /\ {r.userId : r \in fanouts[f].attempted} = {"u1"}
        /\ fanouts[f].delivered # {}
        /\ userPreferences = EmptyMap

\* C2: every reference a fanout dispatches to belongs to a user for whom
\* shouldNotifyUser holds, for the payload's type and priority, in the
\* state in which the fanout enumerates the references.
C2_FanoutRespectsPreferences ==
    [][Len(fanouts') > Len(fanouts) =>
          LET new == fanouts'[Len(fanouts')]
          IN \A r \in new.attempted :
                r.userId # None =>
                    shouldNotifyUser(r.userId, new.payload.type,
                                     new.payload.priority)]_vars

\* an untargeted fanout of priority medium has skipped the conversation of
\* u2, who accepts critical notifications only, and has dispatched to u1
C2_Witness ==
    \E f \in 1..Len(fanouts) :
        /\ fanouts[f].targetUsers = Absent
        /\ fanouts[f].payload.priority = "medium"
        /\ "u2" \in DOMAIN userPreferences
        /\ userPreferences["u2"].escalationRules # Absent
        /\ {r.userId : r \in fanouts[f].conversationReferences} = {"u1", "u2"}
        /\ {r.userId : r \in fanouts[f].attempted} = {"u1"}

\* C3: every reference that passes the target filter and the preference
\* check is dispatched to when the fanout starts; afterwards each of them
\* is pending or has settled with its own outcome, whatever happened to
\* the others, and the call returns without throwing.
C3_EveryRecipientIsAttempted ==
    /\ [](\A f \in 1..Len(fanouts) :
             LET fo == fanouts[f]
                 ids == {r.conversationId : r \in fo.attempted}
             IN /\ fo.pending \cup fo.delivered \cup fo.sendFailed
                      \cup fo.raised = ids
                /\ Cardinality(fo.pending) + Cardinality(fo.delivered)
                      + Cardinality(fo.sendFailed) + Cardinality(fo.raised)
                      = Cardinality(ids)
                /\ fo.status \in {"awaiting", "returned"}
                /\ (fo.pending = {} \/ fo.raised # {}) => fo.status = "returned")
    /\ [][Len(fanouts') > Len(fanouts) =>
             LET new == fanouts'[Len(fanouts')]
                 t == new.targetUsers
             IN \A c \in DOMAIN conversationReferences :
                   LET r == conversationReferences[c]
                   IN (/\ (t # Absent /\ t.items # {}) => r.userId \in t.items
                       /\ shouldNotifyUser(r.userId, new.payload.type,
                                           new.payload.priority))
                         => c \in new.pending]_vars

\* of two recipients the dispatch to one was rejected and the other one was
\* delivered
C3_Witness ==
    \E f \in 1..Len(fanouts) :
        /\ Cardinality(fanouts[f].attempted) = 2
        /\ Cardinality(fanouts[f].raised) = 1
        /\ Cardinality(fanouts[f].delivered) = 1
        /\ fanouts[f].status = "returned"

\* C4 as claimed: the recipientCount of a successful /api/securityAlert
\* response is the number of recipients of this alert whose dispatch did
\* not fail.
C4_RecipientCountIsDispatchCount ==
    \A i \in 1..Len(alertRequests) :
        LET q == alertRequests[i]
        IN (q.status = 200 /\ fanouts[q.fanout].pending = {}) =>
              q.recipientCount = Cardinality(fanouts[q.fanout].delivered)

(***************************************************************************)
(* Alert categories and the alert types of the preferences.                *)
(***************************************************************************)
\* the first messages of two conversations, of u1 and of u2
CategoryArrivals == {<<"c1", "u1", MsgHi>>, <<"c2", "u2", MsgHi>>}

\* the alert types users allow: a category of alerts, or the payload type
CategoryAlertTypes == {{"threat"}, {"alert"}}

\* the bodies posted to /api/securityAlert: a threat and an incident
CategoryAlertBodies ==
    {[id |-> "a1", title |-> "T", description |-> "D", severity |-> "high",
      category |-> "threat", source |-> "SIEM", targetUsers |-> Absent],
     [id |-> "a2", title |-> "T", description |-> "D", severity |-> "high",
      category |-> "incident", source |-> "SIEM", targetUsers |-> Absent]}

NextAlertCategory ==
    \/ \E a \in CategoryArrivals :
          /\ SumOver(updatesApplied, ConversationIds) < MaxFanoutUpdates
          /\ Update(a[1], a[2], a[3])
    \/ \E u \in UserIds, t \in CategoryAlertTypes :
          SetUserPreferences(u, PreferencesOf(u, t, Absent, "none"))
    \/ \E body \in CategoryAlertBodies : SecurityAlertRequest(body)
    \/ \E f \in 1..MaxFanouts, c \in ConversationIds,
          outcome \in {"delivered", "sendFailed", "raised"} :
          DispatchSettles(f, c, outcome)

SpecAlertCategory == Init /\ [][NextAlertCategory]_vars

\* C16 as claimed: when an alert is fanned out, a conversation of a user
\* whom the fanout targets, whose alertTypes is not empty and whom neither
\* the quiet hours nor criticalOnly exclude, is dispatched to exactly when
\* the category of the alert is in the user's alertTypes.
C16_AllowedCategoryDecidesDispatch ==
    [][Len(fanouts') > Len(fanouts) =>
          LET new == fanouts'[Len(fanouts')]
              t == new.targetUsers
          IN new.payload.alert # Absent =>
                \A r \in new.conversationReferences :
                    (/\ (t # Absent /\ t.items # {}) => r.userId \in t.items
                     /\ r.userId \in DOMAIN userPreferences
                     /\ userPreferences[r.userId].alertTypes # {}
                     /\ QuietHoursAllow(userPreferences[r.userId],
                                        new.payload.priority)
                     /\ EscalationAllows(userPreferences[r.userId],
                                         new.payload.priority))
                    => (r \in new.attempted
                          <=> new.payload.alert.category
                                 \in userPreferences[r.userId].alertTypes)]_vars

(***************************************************************************)
(* POST /api/notification.                                                 *)
(***************************************************************************)
\* the bodies posted to /api/notification
NotificationBodies ==
    {[prompt |-> "p", targetUsers |-> Absent, targetChannels |-> Absent],
     [prompt |-> "p", targetUsers |-> [items |-> {"u1"}],
      targetChannels |-> [items |-> {"msteams"}]],
     [prompt |-> None, targetUsers |-> Absent, targetChannels |-> Absent]}

NextNotification ==
    \/ \E a \in FanoutArrivals :
          /\ SumOver(updatesApplied, ConversationIds) < MaxFanoutUpdates
          /\ Update(a[1], a[2], a[3])
    \/ \E method \in {"POST", "GET"}, body \in NotificationBodies :
          NotificationRequest(method, body)
    \/ \E i \in 1..MaxCalls : NotificationCallStep(i)

SpecNotification == Init /\ [][NextNotification]_vars

\* C5 as claimed: a /api/notification request with a prompt and without
\* targetUsers and targetChannels that is answered with 200 has sent the
\* notification to every conversation the ConversationManager holds a
\* reference for, and its recipientCount is the number of sends.
C5_BroadcastReachesKnownConversations ==
    \A i \in 1..Len(notificationRequests) :
        LET q == notificationRequests[i]
        IN (/\ q.status = 200
            /\ q.body.targetUsers = Absent
            /\ q.body.targetChannels = Absent) =>
              /\ q.sent = q.known
              /\ q.recipientCount = Cardinality(q.sent)

(***************************************************************************)
(* The query methods of the ConversationManager.                           *)
(***************************************************************************)
\* minutes by which the clock advances in one step: more than a day
QueryTicks == {1500}

\* the activities that arrive: an urgent text and a text without keywords
QueryArrivals ==
    {<<"c1", "u1", MsgUrgentAudit>>, <<"c2", "u2", MsgHi>>}

\* the processPrompt invocations that are made
QueryCalls == {<<"teamsBot", "c1">>}

NextQueries ==
    \/ \E a \in QueryArrivals :
          /\ SumOver(updatesApplied, ConversationIds) < MaxQueryUpdates
          /\ Update(a[1], a[2], a[3])
    \/ \E d \in QueryTicks : Tick(d)
    \/ SetUserPreferences("u1", PreferencesOf("u1", {"threat"}, QuietOvernight, "none"))
    \/ \E a \in QueryCalls :
          /\ Len(calls) < MaxQueryCalls
          /\ ProcessPromptStart(a[1], a[2])
    \/ \E i \in 1..MaxCalls : ProcessPromptStep(i)
    \/ \E p \in Prompts, c \in ConversationIds : EnhancePromptWithContext(p, c)
    \/ \E c \in ConversationIds : GetConversationState(c)
    \/ GetAllConversationReferences
    \/ GetStatistics

SpecQueries == Init /\ [][NextQueries]_vars

\* the step is a call of one of the four query methods
IsQueryStep ==
    /\ returned' # returned
    /\ returned'.op \in {"enhancePromptWithContext", "getConversationState",
                         "getAllConversationReferences", "getStatistics"}

\* C21: a call of enhancePromptWithContext, getConversationState,
\* getAllConversationReferences or getStatistics leaves the sessions, the
\* conversation references, the preferences and the thread cache as they
\* were, and a conversationId without a session has none after the call.
C21_QueriesChangeNothing ==
    [][IsQueryStep =>
          /\ conversationStates' = conversationStates
          /\ conversationReferences' = conversationReferences
          /\ userPreferences' = userPreferences
          /\ threadCache' = threadCache
          /\ \A c \in ConversationIds :
                c \notin DOMAIN conversationStates =>
                    c \notin DOMAIN conversationStates']_vars

\* getConversationState was called for c3, which has no session, while
\* another session, a preference and a cached thread exist
C21_Witness ==
    /\ returned.op = "getConversationState"
    /\ returned.conversationId = "c3"
    /\ returned.state = Absent
    /\ "c3" \notin DOMAIN conversationStates
    /\ "c1" \in DOMAIN conversationStates
    /\ "u1" \in DOMAIN userPreferences
    /\ "c1" \in DOMAIN threadCache["teamsBot"]

(***************************************************************************)
(* The keyword classifiers applied to texts.                               *)
(***************************************************************************)
\* the words of the texts that are classified
Vocabulary ==
    <<<<"R", "a", "n", "s", "o", "m", "w", "a", "r", "e">>,
      <<"a", "t", "t", "a", "c", "k">>,
      <<"d", "e", "t", "e", "c", "t", "e", "d">>,
      <<"p", "l", "e", "a", "s", "e">>,
      <<"r", "e", "v", "i", "e", "w">>,
      <<"o", "u", "r">>,
      <<"a", "u", "d", "i", "t">>,
      <<"p", "o", "l", "i", "c", "y">>,
      <<"h", "e", "l", "l", "o">>,
      <<"w", "e">>,
      <<"n", "e", "e", "d">>,
      <<"t", "o">>,
      <<"p", "a", "t", "c", "h">>,
      <<"t", "h", "i", "s">>,
      <<"C", "V", "E">>,
      <<"U", "R", "G", "E", "N", "T">>,
      <<"T", "h", "r", "e", "a", "t">>>>

\* the words joined by single blanks
RECURSIVE JoinWords(_)
JoinWords(ws) ==
    IF ws = <<>> THEN <<>>
    ELSE IF Len(ws) = 1 THEN Vocabulary[ws[1]]
    ELSE Vocabulary[ws[1]] \o <<" ">> \o JoinWords(Tail(ws))

\* "Ransomware attack detected"
TextRansomwareAttackDetected == JoinWords(<<1, 2, 3>>)

\* "please review our audit policy"
TextPleaseReviewOurAuditPolicy == JoinWords(<<4, 5, 6, 7, 8>>)

\* "hello"
TextHello == JoinWords(<<9>>)

\* "we need to patch this CVE"
TextWeNeedToPatchThisCVE == JoinWords(<<10, 11, 12, 13, 14, 15>>)

\* the texts that are classified: every text of at most MaxWords words of
\* the vocabulary, the empty text included, and four longer texts
ClassifierTexts ==
    {JoinWords(ws) : ws \in UNION {[1..k -> 1..Len(Vocabulary)] : k \in 0..MaxWords}}
        \cup {TextRansomwareAttackDetected, TextPleaseReviewOurAuditPolicy,
              TextHello, TextWeNeedToPatchThisCVE}

\* a text is about to be classified
InitClassifier ==
    \E query \in ClassifierTexts :
        /\ now = 0
        /\ conversationStates = EmptyMap
        /\ conversationReferences = EmptyMap
        /\ userPreferences = EmptyMap
        /\ cleanedCount = None
        /\ threadCache = [k \in Connectors |-> EmptyMap]
        /\ threadsCreated = 0
        /\ calls = <<>>
        /\ fanouts = <<>>
        /\ env = EnvNames
        /\ botInitializer = FALSE
        /\ agentConnector = FALSE
        /\ adaptiveCardTemplate = FALSE
        /\ alertRequests = <<>>
        /\ notificationRequests = <<>>
        /\ updatesApplied = [c \in ConversationIds |-> 0]
        /\ evictedEver = {}
        /\ textsSent = [c \in ConversationIds |-> <<>>]
        /\ maxCount = [c \in ConversationIds |-> 0]
        /\ prefSets = 0
        /\ returned = [NoReturn EXCEPT !.op = "query", !.text = query]
        /\ messageBotInitializer = FALSE
        /\ turns = <<>>
        /\ healthRequests = <<>>

\* detectSecurityLevel is applied to the text
DetectSecurityLevel ==
    /\ returned' = [returned EXCEPT
                       !.op = "detectSecurityLevel",
                       !.securityLevel = detectSecurityLevel(returned.text)]
    /\ UNCHANGED <<clockVars, sessionVars, prefVars, threadVars, fanoutVars,
                   httpVars, updatesApplied, evictedEver, textsSent, maxCount,
                   endpointVars>>

\* detectCurrentTopic is applied to the text
DetectCurrentTopic ==
    /\ returned' = [returned EXCEPT
                       !.op = "detectCurrentTopic",
                       !.currentTopic = detectCurrentTopic(returned.text)]
    /\ UNCHANGED <<clockVars, sessionVars, prefVars, threadVars, fanoutVars,
                   httpVars, updatesApplied, evictedEver, textsSent, maxCount,
                   endpointVars>>

NextClassifier == DetectSecurityLevel \/ DetectCurrentTopic

SpecClassifier == InitClassifier /\ [][NextClassifier]_vars

\* the keyword occurs in the text when letter case is ignored: at some
\* position every character of the text is the keyword's letter or its
\* upper-case form
OccursIgnoringCase(text, kw) ==
    \E i \in 0..(Len(text) - Len(kw)) :
        \A j \in 1..Len(kw) :
            \/ text[i + j] = kw[j]
            \/ /\ text[i + j] \in DOMAIN LowerOf
               /\ LowerOf[text[i + j]] = kw[j]

\* some keyword of the list occurs in the text
TierOccurs(text, keywords) ==
    \E k \in 1..Len(keywords) : OccursIgnoringCase(text, keywords[k])

\* C22: detectSecurityLevel returns critical when a critical keyword occurs
\* in the text in any letter case, else high when a high keyword occurs,
\* else medium when a medium keyword occurs, else low; "Ransomware attack
\* detected" is critical, "please review our audit policy" is medium and
\* "hello" is low.
C22_HighestTierWithKeyword ==
    returned.securityLevel # None =>
        LET text == returned.text
            level == returned.securityLevel
            critical == TierOccurs(text, criticalKeywords)
            high == TierOccurs(text, highKeywords)
            medium == TierOccurs(text, mediumKeywords)
        IN /\ level \in {"critical", "high", "medium", "low"}
           /\ level = "critical" <=> critical
           /\ level = "high" <=> (~critical /\ high)
           /\ level = "medium" <=> (~critical /\ ~high /\ medium)
           /\ level = "low" <=> (~critical /\ ~high /\ ~medium)
           /\ text = TextRansomwareAttackDetected => level = "critical"
           /\ text = TextPleaseReviewOurAuditPolicy => level = "medium"
           /\ text = TextHello => level = "low"

\* "audit URGENT", with a medium and a critical keyword, was classified
\* critical
C22_Witness ==
    /\ returned.text = JoinWords(<<7, 16>>)
    /\ returned.securityLevel = "critical"

\* the topic labels in the order of the table
TopicOrder ==
    <<"incident response", "threat analysis", "compliance",
      "vulnerability management", "access control", "network security",
      "malware analysis">>

\* C23: detectCurrentTopic returns the first topic of the table, in the
\* order incident response, threat analysis, compliance, vulnerability
\* management, access control, network security, malware analysis, one
\* of whose keywords occurs in the text in any letter case, and general
\* security when no keyword occurs; "we need to patch this CVE" is
\* vulnerability management.
C23_FirstTopicWithKeyword ==
    returned.currentTopic # None =>
        LET text == returned.text
            topic == returned.currentTopic
            Hit(k) == TierOccurs(text, topics[k].keywords)
        IN /\ Len(topics) = Len(TopicOrder)
           /\ \A k \in 1..Len(TopicOrder) :
                 /\ topics[k].topic = TopicOrder[k]
                 /\ topic = TopicOrder[k] <=>
                       (Hit(k) /\ \A j \in 1..(k - 1) : ~Hit(j))
           /\ topic = "general security" <=>
                 \A k \in 1..Len(TopicOrder) : ~Hit(k)
           /\ text = TextWeNeedToPatchThisCVE =>
                 topic = "vulnerability management"

\* "patch audit", with a keyword of vulnerability management before one of
\* compliance, was classified compliance
C23_Witness ==
    /\ returned.text = JoinWords(<<13, 7>>)
    /\ returned.currentTopic = "compliance"

(***************************************************************************)
(* teamsBot.ts and messageHandler: the handling of an inbound message,     *)
(* one step per await.                                                     *)
(***************************************************************************)
\* \w of a regular expression
WordChar(ch) ==
    \/ \E i \in 1..Len(LowerChars) : ch = LowerChars[i] \/ ch = UpperChars[i]
    \/ \E i \in 1..Len(Digits) : ch = Digits[i]
    \/ ch = "_"

\* text.replace(/<at>.*?<\/at>/gi, ''): every <at>...</at>, up to the
\* nearest closing tag, is dropped
RECURSIVE RemoveAtTags(_)
RemoveAtTags(s) ==
    LET lower == ToLowerCase(s)
        closes(i) ==
            {j \in (i + 4)..(Len(s) - 4) :
                SubSeq(lower, j, j + 4) = <<"<", "/", "a", "t", ">">>}
        opens ==
            {i \in 1..(Len(s) - 3) :
                /\ SubSeq(lower, i, i + 3) = <<"<", "a", "t", ">">>
                /\ closes(i) # {}}
    IN IF opens = {} THEN s
       ELSE LET i == CHOOSE x \in opens : \A y \in opens : x <= y
                j == CHOOSE x \in closes(i) : \A y \in closes(i) : x <= y
            IN SubSeq(s, 1, i - 1) \o RemoveAtTags(SubSeq(s, j + 5, Len(s)))

\* cleanText.replace(/@\w+/g, ''): every @ that word characters follow is
\* dropped with them
RECURSIVE RemoveAtWords(_)
RemoveAtWords(s) ==
    IF s = <<>> THEN <<>>
    ELSE IF Head(s) = "@" /\ Len(s) >= 2 /\ WordChar(s[2])
    THEN LET stops == {i \in 2..Len(s) : ~WordChar(s[i])} \cup {Len(s) + 1}
             stop == CHOOSE x \in stops : \A y \in stops : x <= y
         IN RemoveAtWords(SubSeq(s, stop, Len(s)))
    ELSE <<Head(s)>> \o RemoveAtWords(Tail(s))

\* TeamsBot.removeMentions and AgentBot.removeMentions
removeMentions(text) ==
    CHOOSE cleanText \in
        {Trim(RemoveAtWords(withoutTags)) :
            withoutTags \in {Trim(RemoveAtTags(text))}} : TRUE

\* the texts the bots send, without their pictographs
AgentGreeting ==
    "Hi! I'm SOCBot. How can I help you with security operations today?"

AgentWarning ==
    "I encountered an issue processing your request. Please try again or rephrase your question."

TeamsErrorMessage ==
    "I'm sorry, I encountered an error processing your message. Please try again later."

TurnErrorMessage == "Sorry, an error occurred: "

ResponseHeader == "**SOCBot Analysis**\n\n"

ResponseFooter ==
    "\n\n*Need more specific information? Feel free to ask follow-up questions!*"

\* the answers of the AI backend that are longer than 500 characters
LongAnswers == {}

\* AgentBot.formatResponse
formatResponse(aiResponse, originalPrompt) ==
    <<ResponseHeader, aiResponse>>
        \o (IF Len(originalPrompt) > 50 \/ aiResponse \in LongAnswers
            THEN <<ResponseFooter>> ELSE <<>>)

\* the record of a request to /api/messages that carries a message activity
NewTurn(conversationId, userId, text, pc, status) ==
    [userId |-> userId, conversationId |-> conversationId, prompt |-> <<>>,
     text |-> text, pc |-> pc, status |-> status, call |-> 0,
     updated |-> FALSE, sendFailed |-> FALSE, propagated |-> FALSE,
     replies |-> <<>>]

\* messageHandler up to the await of adapter.process: the bot components
\* are constructed on the first request
MessageRequest(conversationId, userId, text) ==
    /\ Len(turns) < MaxTurns
    /\ IF ~messageBotInitializer /\ ~CanInitialize
       THEN /\ turns' = Append(turns, NewTurn(conversationId, userId, text,
                                              "responded", 500))
            /\ UNCHANGED messageBotInitializer
       ELSE /\ turns' = Append(turns, NewTurn(conversationId, userId, text,
                                              "agentRun", 0))
            /\ messageBotInitializer' = TRUE
    /\ UNCHANGED <<clockVars, sessionVars, prefVars, threadVars, fanoutVars,
                   httpVars, historyVars, healthRequests>>

\* agentBot.getApp().run(context) reaches the handler registered with
\* app.message, which runs up to its first await
AgentRunDispatches(t) ==
    /\ t \in 1..Len(turns)
    /\ turns[t].pc = "agentRun"
    /\ LET cleanMessage == removeMentions(turns[t].text)
       IN turns' =
             IF turns[t].text = <<>>
             THEN [turns EXCEPT ![t].pc = "responded", ![t].status = 200]
             ELSE IF Trim(cleanMessage) = <<>>
             THEN [turns EXCEPT ![t].pc = "agentGreeting"]
             ELSE [turns EXCEPT ![t].pc = "agentTyping",
                                ![t].prompt = cleanMessage]
    /\ UNCHANGED <<clockVars, sessionVars, prefVars, threadVars, fanoutVars,
                   httpVars, historyVars, messageBotInitializer,
                   healthRequests>>

\* agentBot.getApp().run(context) rejects: messageHandler falls back to
\* teamsBot.run(context)
AgentRunThrows(t) ==
    /\ t \in 1..Len(turns)
    /\ turns[t].pc = "agentRun"
    /\ turns' = [turns EXCEPT ![t].pc = "teamsRun"]
    /\ UNCHANGED <<clockVars, sessionVars, prefVars, threadVars, fanoutVars,
                   httpVars, historyVars, messageBotInitializer,
                   healthRequests>>

\* teamsBot.run(context) reaches TeamsBot.handleMessage, which runs up to
\* the await of updateConversationState
TeamsRunDispatches(t) ==
    /\ t \in 1..Len(turns)
    /\ turns[t].pc = "teamsRun"
    /\ IF turns[t].text = <<>>
       THEN /\ turns' = [turns EXCEPT ![t].pc = "responded", ![t].status = 200]
            /\ UNCHANGED <<sessionVars, historyVars>>
       ELSE /\ updateConversationState(turns[t].conversationId, turns[t].userId,
                                       turns[t].text, NoThread, "msteams")
            /\ turns' = [turns EXCEPT ![t].pc = "teamsUpdated",
                                      ![t].updated = TRUE]
    /\ UNCHANGED <<clockVars, prefVars, threadVars, fanoutVars, httpVars,
                   messageBotInitializer, healthRequests>>

\* TeamsBot.handleMessage from the return of updateConversationState to
\* the await of the typing indicator
TeamsEnhances(t) ==
    /\ t \in 1..Len(turns)
    /\ turns[t].pc = "teamsUpdated"
    /\ turns' = [turns EXCEPT
                    ![t].pc = "teamsTyping",
                    ![t].prompt =
                        enhancePromptWithContext(removeMentions(turns[t].text),
                                                 turns[t].conversationId)]
    /\ UNCHANGED <<clockVars, sessionVars, prefVars, threadVars, fanoutVars,
                   httpVars, historyVars, messageBotInitializer,
                   healthRequests>>

\* the send of the typing indicator returns: processPrompt is entered
TypingReturns(t) ==
    /\ t \in 1..Len(turns)
    /\ turns[t].pc \in {"agentTyping", "teamsTyping"}
    /\ calls' =
          Append(calls,
                 NewCall(IF turns[t].pc = "agentTyping" THEN "agentBot"
                         ELSE "teamsBot",
                         turns[t].conversationId, 0))
    /\ turns' = [turns EXCEPT
                    ![t].pc = IF turns[t].pc = "agentTyping" THEN "agentPrompt"
                              ELSE "teamsPrompt",
                    ![t].call = Len(calls) + 1]
    /\ UNCHANGED <<clockVars, sessionVars, prefVars, threadCache,
                   threadsCreated, fanoutVars, httpVars, historyVars,
                   messageBotInitializer, healthRequests>>

\* where a handler continues when processPrompt has thrown: in its catch
\* block, which sends a message to the user
AfterPromptThrown_propagate(pc) ==
    IF pc = "agentPrompt" THEN "teamsRun" ELSE "onTurnError"

AfterPromptThrown(pc) ==
    IF pc = "agentPrompt" THEN "agentWarning" ELSE "teamsError"

\* processPrompt has settled: the reply is sent, or the catch block of the
\* handler is entered
PromptSettles(t) ==
    /\ t \in 1..Len(turns)
    /\ turns[t].pc \in {"agentPrompt", "teamsPrompt"}
    /\ calls[turns[t].call].pc \in {"returned", "thrown"}
    /\ turns' =
          IF calls[turns[t].call].pc = "returned"
          THEN [turns EXCEPT
                   ![t].pc = IF turns[t].pc = "agentPrompt" THEN "agentReply"
                             ELSE "teamsReply"]
          ELSE [turns EXCEPT
                   ![t].pc = AfterPromptThrown(turns[t].pc),
                   ![t].propagated =
                       @ \/ AfterPromptThrown(turns[t].pc)
                               \notin {"agentWarning", "teamsError"}]
    /\ UNCHANGED <<clockVars, sessionVars, prefVars, threadVars, fanoutVars,
                   httpVars, historyVars, messageBotInitializer,
                   healthRequests>>

\* the message a handler is sending to the user
Sending(t) ==
    CASE turns[t].pc = "agentGreeting" -> <<AgentGreeting>>
      [] turns[t].pc = "agentReply" ->
            formatResponse(calls[turns[t].call].message, turns[t].prompt)
      [] turns[t].pc = "agentWarning" -> <<AgentWarning>>
      [] turns[t].pc = "teamsReply" -> <<calls[turns[t].call].message>>
      [] turns[t].pc = "teamsError" -> <<TeamsErrorMessage>>
      [] turns[t].pc = "onTurnError" -> <<TurnErrorMessage>>

\* context.sendActivity of a message returns: the handler is done
SendReturns(t) ==
    /\ t \in 1..Len(turns)
    /\ turns[t].pc \in {"agentGreeting", "agentReply", "agentWarning",
                        "teamsReply", "teamsError", "onTurnError"}
    /\ turns' = [turns EXCEPT ![t].pc = "responded",
                              ![t].status = 200,
                              ![t].replies = Append(@, Sending(t))]
    /\ UNCHANGED <<clockVars, sessionVars, prefVars, threadVars, fanoutVars,
                   httpVars, historyVars, messageBotInitializer,
                   healthRequests>>

\* context.sendActivity rejects: inside a try block the catch block is
\* entered; from the catch block of AgentBot the error leaves run and
\* teamsBot.run is tried; from the catch block of TeamsBot it reaches
\* adapter.onTurnError; from onTurnError it reaches the catch block of
\* messageHandler
SendThrows(t) ==
    /\ t \in 1..Len(turns)
    /\ turns[t].pc \in {"agentGreeting", "agentTyping", "agentReply",
                        "agentWarning", "teamsTyping", "teamsReply",
                        "teamsError", "onTurnError"}
    /\ turns' =
          CASE turns[t].pc \in {"agentGreeting", "agentTyping", "agentReply"} ->
                  [turns EXCEPT ![t].pc = "agentWarning",
                                ![t].sendFailed = TRUE]
            [] turns[t].pc = "agentWarning" ->
                  [turns EXCEPT ![t].pc = "teamsRun",
                                ![t].sendFailed = TRUE,
                                ![t].propagated = TRUE]
            [] turns[t].pc \in {"teamsTyping", "teamsReply"} ->
                  [turns EXCEPT ![t].pc = "teamsError",
                                ![t].sendFailed = TRUE]
            [] turns[t].pc = "teamsError" ->
                  [turns EXCEPT ![t].pc = "onTurnError",
                                ![t].sendFailed = TRUE,
                                ![t].propagated = TRUE]
            [] turns[t].pc = "onTurnError" ->
                  [turns EXCEPT ![t].pc = "responded",
                                ![t].status = 500,
                                ![t].sendFailed = TRUE]
    /\ UNCHANGED <<clockVars, sessionVars, prefVars, threadVars, fanoutVars,
                   httpVars, historyVars, messageBotInitializer,
                   healthRequests>>

\* the steps of the handling of an inbound message after its arrival
TurnStep(t) ==
    \/ AgentRunDispatches(t)
    \/ AgentRunThrows(t)
    \/ TeamsRunDispatches(t)
    \/ TeamsEnhances(t)
    \/ TypingReturns(t)
    \/ PromptSettles(t)
    \/ SendReturns(t)
    \/ SendThrows(t)

(***************************************************************************)
(* Inbound messages.                                                       *)
(***************************************************************************)
\* "@bot": a mention and nothing else
MsgMentionOnly ==
    <<"@", "b", "o", "t">>

\* the message activities that arrive: <<conversation.id, from.id, text>>
MessageArrivals ==
    {<<"c1", "u1", NoText>>, <<"c1", "u1", MsgMentionOnly>>,
     <<"c1", "u1", MsgHi>>}

\* the messages follow one another: a message arrives when the requests
\* of the earlier ones have been responded to
NextMessages ==
    \/ \E a \in MessageArrivals :
          /\ \A t \in 1..Len(turns) : turns[t].pc = "responded"
          /\ MessageRequest(a[1], a[2], a[3])
    \/ \E t \in 1..MaxTurns : TurnStep(t)
    \/ \E i \in 1..(2 * MaxTurns) : ProcessPromptStep(i)

SpecMessages == Init /\ [][NextMessages]_vars

\* every step of the handling of a message that can be taken is taken
\* eventually: awaited sends and backend calls settle
FairMessages ==
    /\ \A t \in 1..MaxTurns : WF_vars(TurnStep(t))
    /\ \A i \in 1..(2 * MaxTurns) : WF_vars(ProcessPromptStep(i))

SpecMessagesFair == SpecMessages /\ FairMessages

\* C24 as claimed: an inbound message with a text whose handling has
\* entered processPrompt has had updateConversationState applied for its
\* conversation before, so that the session of the conversation exists.
C24_UpdateBeforeBackendCall ==
    \A t \in 1..Len(turns) :
        (turns[t].text # <<>> /\ turns[t].call # 0) =>
            /\ turns[t].updated
            /\ turns[t].conversationId \in DOMAIN conversationStates

\* C25: when processPrompt throws while a message is handled, the error
\* leaves the handler of the bot only if a send to the user has failed;
\* and every inbound message with a text eventually has a reply, the
\* answer of the AI backend or a fallback message, or a send for it has
\* failed.
C25_BackendFailureEndsInReply ==
    /\ [](\A t \in 1..Len(turns) :
             turns[t].propagated => turns[t].sendFailed)
    /\ \A t \in 1..MaxTurns :
          (Len(turns) >= t /\ turns[t].text # <<>>)
              ~> (/\ Len(turns) >= t
                  /\ (turns[t].replies # <<>> \/ turns[t].sendFailed))

\* the processPrompt call of a message has thrown, no send has failed and
\* the user has the fallback message of the handler as the reply
C25_Witness ==
    \E t \in 1..Len(turns) :
        /\ turns[t].text # <<>>
        /\ turns[t].call # 0
        /\ calls[turns[t].call].pc = "thrown"
        /\ ~turns[t].sendFailed
        /\ turns[t].pc = "responded"
        /\ turns[t].replies \in {<<<<AgentWarning>>>>, <<<<TeamsErrorMessage>>>>}

(***************************************************************************)
(* Defaults of /api/securityAlert.                                         *)
(***************************************************************************)
\* the request has id, title and description and neither severity nor
\* category
HasOnlyRequiredFields(body) ==
    /\ body.id # None
    /\ body.title # None
    /\ body.description # None
    /\ body.severity = None
    /\ body.category = None

\* C27: a /api/securityAlert request with id, title and description and
\* without severity and category is fanned out as an alert of severity
\* medium and category threat in a payload of priority medium, and the
\* response it gets is 200.
C27_DefaultsAreMediumThreat ==
    \A i \in 1..Len(alertRequests) :
        LET q == alertRequests[i]
        IN HasOnlyRequiredFields(q.body) =>
              /\ q.fanout \in 1..Len(fanouts)
              /\ fanouts[q.fanout].payload.type = "alert"
              /\ fanouts[q.fanout].payload.priority = "medium"
              /\ fanouts[q.fanout].payload.alert.severity = "medium"
              /\ fanouts[q.fanout].payload.alert.category = "threat"
              /\ q.pc = "responded" => (q.status = 200 /\ q.success)

\* such a request was answered with 200 after its alert was delivered to a
\* conversation
C27_Witness ==
    \E i \in 1..Len(alertRequests) :
        /\ HasOnlyRequiredFields(alertRequests[i].body)
        /\ alertRequests[i].pc = "responded"
        /\ alertRequests[i].status = 200
        /\ alertRequests[i].fanout \in 1..Len(fanouts)
        /\ fanouts[alertRequests[i].fanout].delivered # {}
        /\ fanouts[alertRequests[i].fanout].payload.alert.severity = "medium"

(***************************************************************************)
(* The health endpoint.                                                    *)
(***************************************************************************)
\* the checks of the /api/health handler: an AgentConnector can be
\* constructed, a BotInitializer can be constructed from the environment,
\* and the card template is loaded or can be loaded (loading falls back to
\* a built-in template)
HealthChecks ==
    [agentConnector |-> /\ "PROJECT_CONNECTION_STRING" \in env
                        /\ "AGENT_ID" \in env,
     botFramework |-> CanInitialize,
     adaptiveCards |-> TRUE]

\* the response of the /api/health handler for the outcome of its checks
HealthResponse_alwaysOk(checks) ==
    [status |-> 200,
     body |-> [status |-> "healthy", checks |-> checks],
     headers |-> [contentType |-> "application/json",
                  cacheControl |-> "no-cache"]]

HealthResponse(checks) ==
    LET allChecksPass ==
            checks.agentConnector /\ checks.botFramework /\ checks.adaptiveCards
    IN [status |-> IF allChecksPass THEN 200 ELSE 503,
        body |-> [status |-> IF allChecksPass THEN "healthy" ELSE "degraded",
                  checks |-> checks],
        headers |-> [contentType |-> "application/json",
                     cacheControl |-> "no-cache"]]

\* the handler of GET /api/health: the components it constructs are local
HealthRequest ==
    /\ Len(healthRequests) < MaxRequests
    /\ healthRequests' = Append(healthRequests, HealthResponse(HealthChecks))
    /\ UNCHANGED <<clockVars, sessionVars, prefVars, threadVars, fanoutVars,
                   httpVars, historyVars, messageBotInitializer, turns>>

\* the handler of GET /api/health when a statement outside the three
\* guarded checks throws: the outer catch block responds
HealthRequestThrows ==
    /\ Len(healthRequests) < MaxRequests
    /\ healthRequests' =
          Append(healthRequests,
                 [status |-> 503,
                  body |-> [status |-> "unhealthy", checks |-> Absent],
                  headers |-> [contentType |-> "application/json",
                               cacheControl |-> "no-cache"]])
    /\ UNCHANGED <<clockVars, sessionVars, prefVars, threadVars, fanoutVars,
                   httpVars, historyVars, messageBotInitializer, turns>>

(***************************************************************************)
(* The endpoints under every configuration.                                *)
(***************************************************************************)
\* the process starts with any of the required environment values set
InitAnyEnvironment ==
    \E values \in SUBSET EnvNames :
        /\ now = 0
        /\ conversationStates = EmptyMap
        /\ conversationReferences = EmptyMap
        /\ userPreferences = EmptyMap
        /\ cleanedCount = None
        /\ threadCache = [k \in Connectors |-> EmptyMap]
        /\ threadsCreated = 0
        /\ calls = <<>>
        /\ fanouts = <<>>
        /\ env = values
        /\ botInitializer = FALSE
        /\ agentConnector = FALSE
        /\ adaptiveCardTemplate = FALSE
        /\ alertRequests = <<>>
        /\ notificationRequests = <<>>
        /\ updatesApplied = [c \in ConversationIds |-> 0]
        /\ evictedEver = {}
        /\ textsSent = [c \in ConversationIds |-> <<>>]
        /\ maxCount = [c \in ConversationIds |-> 0]
        /\ prefSets = 0
        /\ returned = NoReturn
        /\ messageBotInitializer = FALSE
        /\ turns = <<>>
        /\ healthRequests = <<>>

\* the bodies of the /api/securityAlert requests: complete, and without a
\* title
ConfigurationAlertBodies ==
    {[id |-> "a1", title |-> "T", description |-> "D", severity |-> None,
      category |-> None, source |-> None, targetUsers |-> Absent],
     [id |-> "a3", title |-> None, description |-> "D", severity |-> None,
      category |-> None, source |-> None, targetUsers |-> Absent]}

\* the bodies of the /api/notification requests: with and without a prompt
ConfigurationNotificationBodies ==
    {[prompt |-> "p", targetUsers |-> Absent, targetChannels |-> Absent],
     [prompt |-> None, targetUsers |-> Absent, targetChannels |-> Absent]}

\* every /api/notification request is a POST; the message activities carry
\* no text
NextConfiguration ==
    \/ \E body \in ConfigurationAlertBodies : SecurityAlertRequest(body)
    \/ \E body \in ConfigurationNotificationBodies :
          NotificationRequest("POST", body)
    \/ \E i \in 1..MaxCalls : NotificationCallStep(i)
    \/ MessageRequest("c1", "u1", NoText)
    \/ \E t \in 1..MaxTurns : AgentRunDispatches(t)
    \/ HealthRequest
    \/ HealthRequestThrows

SpecConfiguration == InitAnyEnvironment /\ [][NextConfiguration]_vars

\* the step is the arrival of a request at /api/notification,
\* /api/securityAlert or /api/messages
NotificationArrives == Len(notificationRequests') > Len(notificationRequests)

AlertArrives == Len(alertRequests') > Len(alertRequests)

MessageArrives == Len(turns') > Len(turns)

\* the request that has arrived in the step
ArrivedNotification == notificationRequests'[Len(notificationRequests')]

ArrivedAlert == alertRequests'[Len(alertRequests')]

ArrivedMessage == turns'[Len(turns')]

\* C26 as claimed: a POST to /api/notification without a prompt and a POST
\* to /api/securityAlert without id, title or description are answered
\* with 400 whatever the configuration and whether or not the components
\* are constructed, and the handling of such a request constructs no
\* component, calls no processPrompt and starts no fanout.
C26_MalformedRequestIsRejectedFirst ==
    [][/\ (NotificationArrives /\ ArrivedNotification.body.prompt = None) =>
              /\ ArrivedNotification.status = 400
              /\ UNCHANGED <<botInitializer, agentConnector,
                             adaptiveCardTemplate, calls, fanouts>>
       /\ (/\ AlertArrives
           /\ \/ ArrivedAlert.body.id = None
              \/ ArrivedAlert.body.title = None
              \/ ArrivedAlert.body.description = None) =>
              /\ ArrivedAlert.status = 400
              /\ UNCHANGED <<botInitializer, agentConnector,
                             adaptiveCardTemplate, calls, fanouts>>]_vars

\* a required environment value is absent
ValueMissing == \E name \in EnvNames : name \notin env

\* C28: a request that would construct the components while a required
\* environment value is absent is answered with 500 and leaves the module
\* variables unset, so that the next request tries the construction again;
\* botInitializer is never set without its AgentConnector.
C28_FailedConstructionLeavesNothing ==
    /\ [](botInitializer => (agentConnector /\ ~ValueMissing))
    /\ [](messageBotInitializer => ~ValueMissing)
    /\ [][/\ (NotificationArrives /\ ~botInitializer /\ ValueMissing) =>
                /\ ArrivedNotification.status = 500
                /\ ~botInitializer' /\ ~agentConnector'
                /\ ~adaptiveCardTemplate'
          /\ (/\ AlertArrives /\ ~botInitializer /\ ValueMissing
              /\ ArrivedAlert.body.id # None
              /\ ArrivedAlert.body.title # None
              /\ ArrivedAlert.body.description # None) =>
                /\ ArrivedAlert.status = 500
                /\ ~botInitializer' /\ ~agentConnector'
          /\ (MessageArrives /\ ~messageBotInitializer /\ ValueMissing) =>
                /\ ArrivedMessage.status = 500
                /\ ~messageBotInitializer']_vars

\* without AGENT_ID a /api/securityAlert request and then a
\* /api/notification request were both answered with 500, and the module
\* variables are unset
C28_Witness ==
    /\ "AGENT_ID" \notin env
    /\ EnvNames \ env = {"AGENT_ID"}
    /\ Len(alertRequests) = 1
    /\ Len(notificationRequests) = 1
    /\ alertRequests[1].status = 500
    /\ notificationRequests[1].status = 500
    /\ ~botInitializer
    /\ ~agentConnector

\* C30: a /api/health response has status 200 exactly when all of its
\* checks have passed, and 503 otherwise; the body status is healthy with
\* 200 and degraded or unhealthy with 503; the response has the header
\* Cache-Control: no-cache.
C30_HealthStatusFollowsChecks ==
    \A i \in 1..Len(healthRequests) :
        LET r == healthRequests[i]
            allPass ==
                /\ r.body.checks # Absent
                /\ r.body.checks.agentConnector
                /\ r.body.checks.botFramework
                /\ r.body.checks.adaptiveCards
        IN /\ r.status \in {200, 503}
           /\ r.status = 200 <=> allPass
           /\ r.status = 200 => r.body.status = "healthy"
           /\ r.status = 503 => r.body.status \in {"degraded", "unhealthy"}
           /\ r.headers.cacheControl = "no-cache"
           /\ allPass => EnvNames \subseteq env

\* with the chat-platform password absent the health response was 503 and
\* degraded, with the AgentConnector check passed
C30_Witness ==
    /\ EnvNames \ env = {"MicrosoftAppPassword"}
    /\ Len(healthRequests) = 1
    /\ healthRequests[1].status = 503
    /\ healthRequests[1].body.status = "degraded"
    /\ healthRequests[1].body.checks.agentConnector
    /\ ~healthRequests[1].body.checks.botFramework

(***************************************************************************)
(* The statistics of the sessions.                                         *)
(***************************************************************************)
\* the activities that arrive: an urgent text, a text without keywords and
\* an activity without text, each in a conversation of its own
StatisticsArrivals ==
    {<<"c1", "u1", MsgUrgentAudit>>, <<"c2", "u2", MsgHi>>,
     <<"c3", "u1", NoText>>}

NextStatistics ==
    \/ \E a \in StatisticsArrivals : Update(a[1], a[2], a[3])
    \/ \E d \in QueryTicks : Tick(d)
    \/ CleanupOldStates(24)
    \/ GetStatistics

SpecStatistics == Init /\ [][NextStatistics]_vars

\* the step is a call of getStatistics
IsStatisticsStep ==
    /\ returned' # returned
    /\ returned'.op = "getStatistics"

\* the messageCount of a conversation, 0 when it has no session
CountOf(c) ==
    IF c \in DOMAIN conversationStates
    THEN conversationStates[c].messageCount
    ELSE 0

\* C29: getStatistics returns the number of sessions, the sum of their
\* messageCount, an average that is 0 without sessions and otherwise the
\* integer nearest to the quotient of the two, and a distribution over the
\* four levels whose counts add up to the number of sessions that have a
\* level; activeConversations is at most totalConversations.
C29_StatisticsSummariseSessions ==
    [][IsStatisticsStep =>
          LET s == returned'.statistics
              sessions == DOMAIN conversationStates
              total == Cardinality(sessions)
              messages == CountOf("c1") + CountOf("c2") + CountOf("c3")
              d == s.securityLevelDistribution
          IN /\ s.totalConversations = total
             /\ s.totalMessages = messages
             /\ total = 0 => s.averageMessagesPerConversation = 0
             /\ total > 0 =>
                   /\ 2 * (s.averageMessagesPerConversation * total - messages)
                         <= total
                   /\ 2 * (messages - s.averageMessagesPerConversation * total)
                         <= total
             /\ DOMAIN d = {"low", "medium", "high", "critical"}
             /\ d["low"] + d["medium"] + d["high"] + d["critical"] =
                   Cardinality({c \in sessions :
                                   conversationStates[c].securityLevel # None})
             /\ s.activeConversations <= s.totalConversations
             /\ s.activeConversations >= 0]_vars

\* getStatistics has returned 3 sessions with 5 messages, hence an average
\* of 2, of which 2 sessions are active and 2 have a level
C29_Witness ==
    /\ returned.op = "getStatistics"
    /\ returned.statistics # Absent
    /\ returned.statistics.totalConversations = 3
    /\ returned.statistics.totalMessages = 5
    /\ returned.statistics.averageMessagesPerConversation = 2
    /\ returned.statistics.activeConversations = 2
    /\ returned.statistics.securityLevelDistribution["critical"] = 1
    /\ returned.statistics.securityLevelDistribution["low"] = 1
    /\ returned.statistics.securityLevelDistribution["medium"] = 0
    /\ returned.statistics.securityLevelDistribution["high"] = 0

(***************************************************************************)
(* Alerts and incident notifications sent directly.                        *)
(***************************************************************************)
\* ProactiveNotifier.sendIncidentNotification: the alert it builds
IncidentAlert(incidentId, title, description, severity) ==
    [id |-> incidentId,
     title |-> title,
     description |-> description,
     severity |-> severity,
     category |-> "incident",
     source |-> "SOCBot Monitoring"]

\* ProactiveNotifier.sendSecurityAlert called directly
SendSecurityAlert(alert, targetUsers) ==
    /\ Len(fanouts) < MaxFanouts
    /\ fanouts' =
          Append(fanouts, NewFanout(AlertPayload(alert), targetUsers, 0))
    /\ UNCHANGED <<clockVars, sessionVars, prefVars, threadVars, httpVars,
                   historyVars, endpointVars>>

\* ProactiveNotifier.sendIncidentNotification called directly: it hands
\* the alert it builds to sendSecurityAlert
SendIncidentNotification(incidentId, title, description, severity, targetUsers) ==
    /\ Len(fanouts) < MaxFanouts
    /\ \E alert \in {IncidentAlert(incidentId, title, description, severity)} :
          fanouts' =
             Append(fanouts, NewFanout(AlertPayload(alert), targetUsers, 0))
    /\ UNCHANGED <<clockVars, sessionVars, prefVars, threadVars, httpVars,
                   historyVars, endpointVars>>

\* the first messages of two conversations
IncidentArrivals ==
    {<<"c1", "u1", MsgHi>>, <<"c2", "u2", MsgHi>>}

\* the alerts handed to sendSecurityAlert
DirectAlerts ==
    {[id |-> "a1", title |-> "T", description |-> "D", severity |-> s,
      category |-> "threat", source |-> "SIEM"] : s \in {"low", "critical"}}

NextIncident ==
    \/ \E a \in IncidentArrivals :
          /\ SumOver(updatesApplied, ConversationIds) < MaxFanoutUpdates
          /\ Update(a[1], a[2], a[3])
    \/ \E alert \in DirectAlerts, t \in {Absent, [items |-> {"u1"}]} :
          SendSecurityAlert(alert, t)
    \/ \E s \in {"medium", "high"}, t \in {Absent, [items |-> {"u1"}]} :
          SendIncidentNotification("i1", "T", "D", s, t)
    \/ \E f \in 1..MaxFanouts, c \in ConversationIds,
          outcome \in {"delivered", "sendFailed", "raised"} :
          DispatchSettles(f, c, outcome)

SpecIncident == Init /\ [][NextIncident]_vars

\* the fanout was started by sendIncidentNotification: only that method
\* names SOCBot Monitoring as the source
FromIncidentNotification(fanout) ==
    /\ fanout.payload.alert # Absent
    /\ fanout.payload.alert.source = "SOCBot Monitoring"

\* C31 as claimed: a fanout started by sendSecurityAlert has a payload of
\* type alert with the alert's severity as priority and a card with the
\* actions Acknowledge and Escalate; a fanout started by
\* sendIncidentNotification has a payload of type incident, the incident
\* text and a card with the actions Start Response and View Details.
C31_AlertAndIncidentPayloads ==
    \A f \in 1..Len(fanouts) :
        LET fanout == fanouts[f]
        IN IF FromIncidentNotification(fanout)
           THEN /\ fanout.payload.type = "incident"
                /\ fanout.activity.format = "formatIncidentMessage"
                /\ fanout.activity.card # Absent
                /\ fanout.activity.card.actions =
                      <<"Start Response", "View Details">>
           ELSE /\ fanout.payload.type = "alert"
                /\ fanout.payload.priority = fanout.payload.alert.severity
                /\ fanout.activity.card # Absent
                /\ fanout.activity.card.actions = <<"Acknowledge", "Escalate">>

(***************************************************************************)
(* The prompt TeamsBot hands to the AI backend.                            *)
(***************************************************************************)
\* the step in which TeamsBot.handleMessage enhances the prompt of turn t
IsTeamsEnhanceStep(t) ==
    /\ turns[t].pc = "teamsUpdated"
    /\ turns'[t].pc = "teamsTyping"

\* C32 as claimed: when TeamsBot.handleMessage handles the first message
\* of a conversation, the only text the conversation has sent so far, the
\* prompt it passes on is the message with its mentions removed and
\* nothing appended.
C32_FirstMessageIsForwardedUnchanged ==
    [][\A t \in 1..Len(turns) :
          (/\ IsTeamsEnhanceStep(t)
           /\ Len(textsSent[turns[t].conversationId]) = 1) =>
              turns'[t].prompt = removeMentions(turns[t].text)]_vars

(***************************************************************************)
(* One backend call and one answer for a message.                          *)
(***************************************************************************)
\* the processPrompt call made for turn t has returned a reply, so that
\* the message has been posted to the thread and a run has been made
PostedForTurn(t) ==
    /\ turns[t].call # 0
    /\ calls[turns[t].call].pc = "returned"

\* C33 as claimed: a message whose processPrompt call has returned is not
\* handed to processPrompt a second time, also when AgentBot fails after
\* that call and TeamsBot takes over, and a message gets at most one
\* reply.
C33_MessageIsPostedAtMostOnce ==
    [][\A t \in 1..Len(turns) :
          /\ Len(turns'[t].replies) <= 1
          /\ PostedForTurn(t) => turns'[t].call = turns[t].call]_vars

(***************************************************************************)
(* One thread for a conversation.                                          *)
(***************************************************************************)
\* C34 as claimed: the AgentConnectors of the process never hold two
\* different cached thread ids for one conversationId, so that the
\* messages of a conversation go to one thread whichever handler processes
\* them.
C34_OneThreadPerConversation ==
    \A c \in ConversationIds : \A k1, k2 \in Connectors :
        (c \in DOMAIN threadCache[k1] /\ c \in DOMAIN threadCache[k2]) =>
            threadCache[k1][c] = threadCache[k2][c]

(***************************************************************************)
(* Sessions and conversation references go together.                       *)
(***************************************************************************)
\* C35: the conversations that have a session are at every time the
\* conversations that have a stored conversation reference, and every step
\* adds the same conversations to both maps and removes the same
\* conversations from both.
C35_SessionsAndReferencesGoTogether ==
    /\ [](DOMAIN conversationStates = DOMAIN conversationReferences)
    /\ [][/\ DOMAIN conversationStates' \ DOMAIN conversationStates =
              DOMAIN conversationReferences' \ DOMAIN conversationReferences
          /\ DOMAIN conversationStates \ DOMAIN conversationStates' =
              DOMAIN conversationReferences \ DOMAIN conversationReferences']_vars

\* c1 has been evicted while c2 was kept: c2 alone has a session and a
\* reference
C35_Witness ==
    /\ evictedEver = {"c1"}
    /\ updatesApplied["c1"] > 0
    /\ DOMAIN conversationStates = {"c2"}
    /\ DOMAIN conversationReferences = {"c2"}

(***************************************************************************)
(* Fanouts interleaved with updates and sweeps.                            *)
(***************************************************************************)
\* the first messages of two conversations
InterleavedArrivals ==
    {<<"c1", "u1", MsgHi>>, <<"c2", "u2", MsgHi>>}

\* sendNotification awaits its dispatches: updates, sweeps and clock
\* steps run between the start of a fanout and the settling of its sends
NextInterleaved ==
    \/ \E a \in InterleavedArrivals :
          /\ SumOver(updatesApplied, ConversationIds) < MaxFanoutUpdates
          /\ Update(a[1], a[2], a[3])
    \/ \E d \in FanoutTicks : Tick(d)
    \/ CleanupOldStates(24)
    \/ \E t \in {Absent, [items |-> {"u1"}]} : SendMessage("text", "medium", t)
    \/ \E f \in 1..MaxFanouts, c \in ConversationIds,
          outcome \in {"delivered", "sendFailed", "raised"} :
          DispatchSettles(f, c, outcome)

SpecInterleaved == Init /\ [][NextInterleaved]_vars

\* the conversations a fanout has dispatched to
DispatchedTo(fanout) ==
    fanout.pending \cup fanout.delivered \cup fanout.sendFailed
        \cup fanout.raised

\* C36: a fanout that starts takes its recipients from the references
\* stored at that moment and has a dispatch pending for each of them; no
\* later step, be it an update, a sweep or the settling of a send, changes
\* the recipients of a fanout or the conversations it has dispatched to.
C36_RecipientsAreFixedAtStart ==
    [][/\ \A f \in 1..Len(fanouts) :
             /\ fanouts'[f].attempted = fanouts[f].attempted
             /\ DispatchedTo(fanouts'[f]) = DispatchedTo(fanouts[f])
       /\ Len(fanouts') > Len(fanouts) =>
             LET new == fanouts'[Len(fanouts')]
             IN /\ new.attempted \subseteq
                      {conversationReferences[c] :
                          c \in DOMAIN conversationReferences}
                /\ new.pending =
                      {r.conversationId : r \in new.attempted}]_vars

\* a fanout without targets started when c1 alone was known; since then
\* c1 has been evicted and c2 has sent its first message, and the send to
\* c1 has been delivered and none to c2 has been made
C36_Witness ==
    \E f \in 1..Len(fanouts) :
        /\ fanouts[f].targetUsers = Absent
        /\ {r.conversationId : r \in fanouts[f].attempted} = {"c1"}
        /\ fanouts[f].delivered = {"c1"}
        /\ fanouts[f].status = "returned"
        /\ DOMAIN conversationReferences = {"c2"}
        /\ evictedEver = {"c1"}

(***************************************************************************)
(* Conversations with several users.                                       *)
(***************************************************************************)
\* the activities that arrive: c1 is a group conversation in which u1 and
\* u2 write
GroupArrivals ==
    {<<"c1", "u1", MsgHi>>, <<"c1", "u2", MsgHi>>, <<"c2", "u2", MsgPatch>>}

NextGroup ==
    \/ \E a \in GroupArrivals : Update(a[1], a[2], a[3])
    \/ \E d \in SessionTicks : Tick(d)
    \/ CleanupOldStates(24)

SpecGroup == Init /\ [][NextGroup]_vars

\* C37 as claimed: the stored conversation reference of a conversation
\* carries the userId of the conversation's session, whoever sent the
\* updates.
C37_ReferenceCarriesSessionUser ==
    \A c \in DOMAIN conversationStates :
        /\ c \in DOMAIN conversationReferences
        /\ conversationReferences[c].userId = conversationStates[c].userId

(***************************************************************************)
(* Eviction and the thread cache.                                          *)
(***************************************************************************)
\* the messages of c1 are handled by TeamsBot: each is an update of the
\* session and a processPrompt call of TeamsBot's connector, and the
\* calls follow one another; u1 sets preferences, the clock advances by 25
\* hours and sessions older than 24 hours are swept
NextEvictThread ==
    \/ /\ SumOver(updatesApplied, ConversationIds) < MaxQueryUpdates
       /\ Update("c1", "u1", MsgHi)
    \/ /\ \A i \in 1..Len(calls) : ~InFlight(i)
       /\ ProcessPromptStart("teamsBot", "c1")
    \/ \E i \in 1..MaxCalls : ProcessPromptStep(i)
    \/ SetUserPreferences("u1", PreferencesOf("u1", {"threat"}, QuietOvernight, "none"))
    \/ \E d \in QueryTicks : Tick(d)
    \/ CleanupOldStates(24)

SpecEvictThread == Init /\ [][NextEvictThread]_vars

\* C38: a step that removes a session or a conversation reference leaves
\* the user preferences and the thread caches as they are, and a
\* processPrompt call that starts for a conversation that was evicted and
\* has a cached thread uses that thread and requests no new one.
C38_EvictionKeepsPreferencesAndThreads ==
    [][/\ (\/ DOMAIN conversationStates' # DOMAIN conversationStates
           \/ DOMAIN conversationReferences' # DOMAIN conversationReferences
           \/ evictedEver' # evictedEver) =>
              UNCHANGED <<userPreferences, threadCache>>
       /\ Len(calls') > Len(calls) =>
              LET new == calls'[Len(calls')]
                  c == new.conversationId
                  k == new.connector
              IN (c \in evictedEver /\ c \in DOMAIN threadCache[k]) =>
                    /\ new.threadId = threadCache[k][c]
                    /\ new.createRequests = 0
                    /\ new.pc = "createMessage"]_vars

\* the thread of c1 was cached by the first call; c1 was then evicted and
\* sent a message again, and the second call has answered on that thread
\* with the preferences of u1 still set
C38_Witness ==
    /\ evictedEver = {"c1"}
    /\ updatesApplied["c1"] = 2
    /\ "c1" \in DOMAIN conversationStates
    /\ conversationStates["c1"].messageCount = 1
    /\ "u1" \in DOMAIN userPreferences
    /\ Len(calls) = 2
    /\ calls[1].createRequests = 1
    /\ calls[2].createRequests = 0
    /\ calls[2].threadId = calls[1].threadId
    /\ calls[2].pc = "returned"
    /\ threadsCreated = 1

(***************************************************************************)
(* processPrompt without a conversationId.                                 *)
(***************************************************************************)
\* the thread ids the calls have obtained so far
ThreadsOfCalls ==
    {calls[j].threadId : j \in 1..Len(calls)} \ {NoThread}

\* C39: a processPrompt call without a conversationId starts with a
\* createThread request whatever the caches hold, obtains a thread no
\* earlier call has used, and none of its steps changes a thread cache.
C39_CallWithoutConversationBypassesCache ==
    [][/\ (/\ Len(calls') > Len(calls)
           /\ calls'[Len(calls')].conversationId = None) =>
              /\ calls'[Len(calls')].pc = "createThread"
              /\ calls'[Len(calls')].createRequests = 1
              /\ calls'[Len(calls')].threadId = NoThread
              /\ threadCache' = threadCache
       /\ \A i \in 1..Len(calls) :
              (calls[i].conversationId = None /\ calls'[i] # calls[i]) =>
                 /\ threadCache' = threadCache
                 /\ calls'[i].createRequests = 1
                 /\ calls[i].pc = "createThread" /\ calls'[i].pc = "createMessage"
                       => /\ calls'[i].threadId # NoThread
                          /\ calls'[i].threadId \notin ThreadsOfCalls]_vars

\* two calls without a conversationId have returned, each on a thread of
\* its own, and no cache has an entry
C39_Witness ==
    /\ Len(calls) = 2
    /\ calls[1].conversationId = None
    /\ calls[2].conversationId = None
    /\ calls[1].pc = "returned"
    /\ calls[2].pc = "returned"
    /\ calls[1].threadId = 1
    /\ calls[2].threadId = 2
    /\ \A k \in Connectors : DOMAIN threadCache[k] = {}

(***************************************************************************)
(* The card template of the HTTP function module.                          *)
(***************************************************************************)
\* C40 as claimed: whenever the module's botInitializer is set its card
\* template is loaded, and every /api/notification request answered with
\* 200 has rendered its card from the template.
C40_TemplateLoadedWithInitializer ==
    /\ botInitializer => adaptiveCardTemplate
    /\ \A n \in 1..Len(notificationRequests) :
          notificationRequests[n].status = 200 =>
              notificationRequests[n].card = "template"

====
